---- MODULE Spec2Model ----
(***************************************************************************)
(* A state-machine model of clone_pseudo_fs (src/src/clone_pseudo_fs.cpp): *)
(* the single-pass scanner (clone_work), the cache scanner (cache_src),    *)
(* prune propagation (prune_prop_dir), the unroller (unroll_cache) and the *)
(* regular-file transfer functions.                                        *)
(*                                                                         *)
(* Paths are sequences of component names: <<"s", "a">> is "/s/a" and      *)
(* <<>> is "/".  The text of a symlink is a sequence of components that    *)
(* may hold ".." and "."; an absolute text starts with the component "/".  *)
(***************************************************************************)
EXTENDS Integers, Sequences, FiniteSets, TLC

\* ------------------------------------------------------------------------
\* Program constants
\* ------------------------------------------------------------------------
def_reglen ==
    256

reg_re_read_sz ==
    1024

prune_exact ==
    1

prune_all_below ==
    2

prune_up_chain ==
    4

src_symlink_tgt_path ==
    "0_source_symlink_target_path"

\* ------------------------------------------------------------------------
\* Bounds of the model
\* ------------------------------------------------------------------------
\* largest number of --prune= arguments on one command line
MaxPrune ==
    2

\* largest number of --dereference= arguments on one command line
MaxDeref ==
    1

\* largest value given to --max-depth=
MaxDepthOpt ==
    2

\* number of symlinks the kernel follows while resolving one path
MaxSymHops ==
    3

\* ------------------------------------------------------------------------
\* Paths (std::filesystem::path over canonical strings)
\* ------------------------------------------------------------------------
NoPath ==
    <<"?">>

parent_path(p) ==
    IF p = <<>> THEN <<>> ELSE SubSeq(p, 1, Len(p) - 1)

filename(p) ==
    IF p = <<>> THEN "" ELSE p[Len(p)]

RECURSIVE comp_size(_)
comp_size(p) ==
    IF p = <<>> THEN 0 ELSE 1 + Len(Head(p)) + comp_size(Tail(p))

\* s(pt).size(): the root is the one-character string "/"
str_size(p) ==
    IF p = <<>> THEN 1 ELSE comp_size(p)

RECURSIVE step_back(_, _)
step_back(c_need, hay_c_sz) ==
    LET par == parent_path(c_need)
    IN  IF str_size(par) > hay_c_sz THEN step_back(par, hay_c_sz) ELSE par

path_contains_canon(haystack_c_pt, needle_c_pt) ==
    LET hay_c_sz == str_size(haystack_c_pt)
        need_c_sz == str_size(needle_c_pt)
    IN  IF need_c_sz = hay_c_sz THEN needle_c_pt = haystack_c_pt
        ELSE IF need_c_sz < hay_c_sz THEN FALSE
        ELSE LET c_need == step_back(needle_c_pt, hay_c_sz)
             IN  IF str_size(c_need) < hay_c_sz THEN FALSE
                 ELSE c_need = haystack_c_pt

\* the characters of path p after its first n characters, as components;
\* a cut inside a component leaves a torn first component, written "?",
\* a cut just after a '/' leaves the components whole
RECURSIVE drop_chars(_, _)
drop_chars(p, n) ==
    IF n <= 1 \/ p = <<>> THEN p
    ELSE IF n >= 1 + Len(Head(p)) THEN drop_chars(Tail(p), n - (1 + Len(Head(p))))
    ELSE <<"?">> \o Tail(p)

\* split_path(): [ec, vs]
split_path(par_pt, base_pt, source_pt) ==
    LET base_pt_sz == str_size(base_pt)
        par_pt_sz == str_size(par_pt)
    IN  IF base_pt_sz = par_pt_sz /\ base_pt = par_pt
        THEN [ec |-> "ok", vs |-> <<>>]
        ELSE IF ~path_contains_canon(source_pt, par_pt)
        THEN [ec |-> "EDOM", vs |-> <<>>]
        ELSE IF base_pt_sz = par_pt_sz
        THEN [ec |-> "ok", vs |-> <<>>]
        ELSE IF base_pt_sz > par_pt_sz
        THEN [ec |-> "EINVAL", vs |-> <<>>]
        ELSE [ec |-> "ok",
              vs |-> drop_chars(par_pt, IF base_pt = <<>> THEN 0 ELSE base_pt_sz)]

\* the part of path_depth() that follows the evaluation of sp
path_depth_sp(sp) ==
    [ec |-> sp.ec, res |-> Len(sp.vs)]

\* path_depth(): [ec, res]
path_depth(par_pt, base_pt, source_pt) ==
    path_depth_sp(split_path(par_pt, base_pt, source_pt))

\* ------------------------------------------------------------------------
\* The source file system: a function from canonical paths to inodes.
\* kind is the fs::file_type that symlink_status() reports, target the
\* text of a symlink, size the length of a regular file, chunk the largest
\* number of bytes one read(2) of it returns, dev its st_dev.  open_err is
\* the errno open(2) of the file for reading fails with and read_err the
\* errno its first read(2) fails with ("ok": the call succeeds).
\* ------------------------------------------------------------------------
Dir(dev) ==
    [kind |-> "directory", target |-> <<>>, size |-> 0, chunk |-> 0, dev |-> dev,
     open_err |-> "ok", read_err |-> "ok"]

Reg(size, chunk) ==
    [kind |-> "regular", target |-> <<>>, size |-> size, chunk |-> chunk, dev |-> 1,
     open_err |-> "ok", read_err |-> "ok"]

Sym(target) ==
    [kind |-> "symlink", target |-> target, size |-> 0, chunk |-> 0, dev |-> 1,
     open_err |-> "ok", read_err |-> "ok"]

Chr ==
    [kind |-> "character", target |-> <<>>, size |-> 0, chunk |-> 0, dev |-> 1,
     open_err |-> "ok", read_err |-> "ok"]

MkFS(entries) ==
    [p \in {e[1] : e \in entries} |-> (CHOOSE e \in entries : e[1] = p)[2]]

\* directories every fixture has: "/", the source root /s, and /o/y
\* which lies outside the source
CommonFS ==
    { <<<<>>, Dir(1)>>, <<<<"s">>, Dir(1)>>, <<<<"o">>, Dir(1)>>,
      <<<<"o", "y">>, Dir(1)>> }

\* a spine of directories, a large file, a device node and a mount point
FixSpine ==
    MkFS(CommonFS \cup
         { <<<<"s", "a">>, Dir(1)>>,
           <<<<"s", "a", "b">>, Dir(1)>>,
           <<<<"s", "a", "b", "c">>, Dir(1)>>,
           <<<<"s", "a", "b", "c", "leaf">>, Reg(5, 4096)>>,
           <<<<"s", "a", "o">>, Dir(1)>>,
           <<<<"s", "a", "o", "big">>, Reg(3000, 4096)>>,
           <<<<"s", "dv">>, Chr>>,
           <<<<"s", "m">>, Dir(2)>>,
           <<<<"s", "m", "x">>, Reg(2, 4096)>> })

\* a sysfs-like tree: dev/sda is a symlink to the directory block/sda
FixSysfs ==
    MkFS(CommonFS \cup
         { <<<<"s", "block">>, Dir(1)>>,
           <<<<"s", "block", "sda">>, Dir(1)>>,
           <<<<"s", "block", "sda", "size">>, Reg(8, 4096)>>,
           <<<<"s", "block", "sda", "q">>, Dir(1)>>,
           <<<<"s", "block", "sda", "q", "r">>, Reg(300, 4096)>>,
           <<<<"s", "dev">>, Dir(1)>>,
           <<<<"s", "dev", "sda">>, Sym(<<"..", "block", "sda">>)>>,
           <<<<"s", "dev", "lr">>, Sym(<<"..", "block", "sda", "size">>)>>,
           <<<<"s", "dev", "out">>, Sym(<<"/", "o", "y">>)>> })

\* dangling, hidden, upward and root-pointing symlinks
FixLinks ==
    MkFS(CommonFS \cup
         { <<<<"s", "d">>, Dir(1)>>,
           <<<<"s", "d", "dg">>, Sym(<<"nowhere">>)>>,
           <<<<"s", "d", "e">>, Dir(1)>>,
           <<<<"s", "d", "e", "back">>, Sym(<<"..">>)>>,
           <<<<"s", "d", "e", "f">>, Reg(1500, 1024)>>,
           <<<<"s", "d", "e", "up">>, Sym(<<"..", "..">>)>>,
           <<<<"s", ".h">>, Sym(<<"d", "e">>)>> })

\* a symlink to a directory that holds a directory of the same name as a
\* sibling of the symlink
FixTwins ==
    MkFS(CommonFS \cup
         { <<<<"s", "g">>, Dir(1)>>,
           <<<<"s", "g", "x">>, Reg(2, 4096)>>,
           <<<<"s", "lnk">>, Sym(<<"t">>)>>,
           <<<<"s", "t">>, Dir(1)>>,
           <<<<"s", "t", "g">>, Dir(1)>>,
           <<<<"s", "t", "g", "y">>, Reg(2, 4096)>> })

\* two directories, each holding a symlink to the other
FixCross ==
    MkFS(CommonFS \cup
         { <<<<"s", "a">>, Dir(1)>>,
           <<<<"s", "a", "f">>, Reg(2, 4096)>>,
           <<<<"s", "a", "to_b">>, Sym(<<"..", "b">>)>>,
           <<<<"s", "b">>, Dir(1)>>,
           <<<<"s", "b", "to_a">>, Sym(<<"..", "a">>)>>,
           <<<<"s", "b", "x">>, Reg(2, 4096)>> })

\* a file that cannot be read beside one that can; id names the call that
\* fails on it and the errno
FixFault(id) ==
    LET e == CASE id = "open EACCES" -> <<"EACCES", "ok">>
               [] id = "open EPERM" -> <<"EPERM", "ok">>
               [] id = "open ENOENT" -> <<"ENOENT", "ok">>
               [] id = "read EIO" -> <<"ok", "EIO">>
               [] id = "read EAGAIN" -> <<"ok", "EAGAIN">>
               [] id = "read EINVAL" -> <<"ok", "EINVAL">>
    IN  MkFS(CommonFS \cup
             { <<<<"s", "bad">>, [Reg(8, 4096) EXCEPT !.open_err = e[1],
                                                      !.read_err = e[2]]>>,
               <<<<"s", "ok">>, Reg(8, 4096)>> })

Fixture(id) ==
    CASE id = "spine" -> FixSpine
      [] id = "sysfs" -> FixSysfs
      [] id = "links" -> FixLinks
      [] id = "twins" -> FixTwins
      [] id = "cross" -> FixCross
      [] OTHER -> FixFault(id)

FixtureIds ==
    {"spine", "sysfs", "links"}

\* names in the order std::sort gives their strings
NameOrder ==
    << ".h", "0_source_symlink_target_path", "a", "b", "back", "bad", "big", "block",
       "c", "d", "dev", "dg", "dv", "e", "f", "g", "leaf", "lnk", "lr", "m", "nowhere",
       "o", "ok", "out", "q", "r", "s", "sda", "size", "t", "to_a", "to_b", "up", "x", "y" >>

NameRank(n) ==
    CHOOSE i \in 1..Len(NameOrder) : NameOrder[i] = n

\* hidden_entry: the first character of the file name is '.'
HiddenNames ==
    {".h"}

\* ------------------------------------------------------------------------
\* Path resolution by the kernel (fs::canonical, fs::status, open(2))
\* ------------------------------------------------------------------------
is_relative(t) ==
    t = <<>> \/ Head(t) # "/"

\* walk the components todo from the resolved directory cur
RECURSIVE Resolve(_, _, _, _)
\* the part of Resolve() that follows the evaluation of np
Resolve_np(np, fsys, cur, hops, c, rest) ==
    IF fsys[cur].kind # "directory"
    THEN [ok |-> FALSE, path |-> NoPath, err |-> "ENOTDIR"]
    ELSE IF c = "." THEN Resolve(fsys, cur, rest, hops)
    ELSE IF c = ".." THEN Resolve(fsys, parent_path(cur), rest, hops)
    ELSE IF np \notin DOMAIN fsys
    THEN [ok |-> FALSE, path |-> NoPath, err |-> "ENOENT"]
    ELSE IF fsys[np].kind = "symlink"
    THEN IF hops = 0
         THEN [ok |-> FALSE, path |-> NoPath, err |-> "ELOOP"]
         ELSE IF is_relative(fsys[np].target)
         THEN Resolve(fsys, cur, fsys[np].target \o rest, hops - 1)
         ELSE Resolve(fsys, <<>>, Tail(fsys[np].target) \o rest, hops - 1)
    ELSE Resolve(fsys, np, rest, hops)

Resolve(fsys, cur, todo, hops) ==
    IF todo = <<>> THEN [ok |-> TRUE, path |-> cur, err |-> "ok"]
    ELSE LET c == Head(todo)
             rest == Tail(todo)
         IN  Resolve_np(Append(cur, c), fsys, cur, hops, c, rest)

\* fs::canonical(pt): pt is an absolute path expression
canonical(fsys, pt) ==
    Resolve(fsys, <<>>, pt, MaxSymHops)

\* par / target as std::filesystem joins them
join_path(par, target) ==
    IF is_relative(target) THEN par \o target ELSE Tail(target)

\* fs::status(pt).type(): follows symlinks
status(fsys, pt) ==
    LET c == canonical(fsys, pt)
    IN  IF c.ok THEN fsys[c.path].kind ELSE "not_found"

\* fs::symlink_status(pt).type(): the last component is not followed
symlink_status(fsys, pt) ==
    IF pt = <<>> THEN "directory"
    ELSE LET c == canonical(fsys, parent_path(pt))
         IN  IF c.ok /\ Append(c.path, filename(pt)) \in DOMAIN fsys
             THEN fsys[Append(c.path, filename(pt))].kind
             ELSE "not_found"

\* the errno that lstat(2) of pt leaves when the last component is not
\* found: ENOTDIR when the parent is not a directory
symlink_status_err(fsys, pt) ==
    LET c == canonical(fsys, parent_path(pt))
    IN  IF ~c.ok THEN c.err
        ELSE IF fsys[c.path].kind # "directory" THEN "ENOTDIR"
        ELSE "ENOENT"

\* the names a directory iterator finds in directory dir
ChildNames(fsys, dir) ==
    {filename(p) : p \in {q \in DOMAIN fsys : q # <<>> /\ parent_path(q) = dir}}

\* ------------------------------------------------------------------------
\* Sorted vectors of strings (deref_v, prune_v, glob_exclude_v, excl_fn_v)
\* ------------------------------------------------------------------------
RECURSIVE PathLess(_, _)
PathLess(p, r) ==
    IF p = <<>> THEN r # <<>>
    ELSE IF r = <<>> THEN FALSE
    ELSE IF Head(p) = Head(r) THEN PathLess(Tail(p), Tail(r))
    ELSE NameRank(Head(p)) < NameRank(Head(r))

\* std::ranges::sort followed by run_unique_and_erase
RECURSIVE sort_unique(_)
sort_unique(S) ==
    IF S = {} THEN <<>>
    ELSE LET m == CHOOSE x \in S : \A y \in S \ {x} : PathLess(x, y)
         IN  <<m>> \o sort_unique(S \ {m})

\* a search that never looks at the last element of the vector
binary_search_find_index_short(vec, pt) ==
    IF \E i \in 1..(Len(vec) - 1) : vec[i] = pt
    THEN (CHOOSE i \in 1..(Len(vec) - 1) : vec[i] = pt) - 1
    ELSE -1

\* 0-based index of pt in the sorted vector, -1 when absent
binary_search_find_index(vec, pt) ==
    IF \E i \in 1..Len(vec) : vec[i] = pt
    THEN (CHOOSE i \in 1..Len(vec) : vec[i] = pt) - 1
    ELSE -1

erase(vec, ind) ==
    SubSeq(vec, 1, ind) \o SubSeq(vec, ind + 2, Len(vec))

\* a find_in_sorted_vec() that leaves a found entry in the vector
find_in_sorted_vec_keep(vec, pt, rm_if_found) ==
    LET ind == binary_search_find_index(vec, pt)
    IN  IF ind >= 0
        THEN [first |-> TRUE, second |-> TRUE, vec |-> vec]
        ELSE [first |-> FALSE, second |-> TRUE, vec |-> vec]

\* [first, second, vec]: found, vector not emptied by the erase, the vector
find_in_sorted_vec(vec, pt, rm_if_found) ==
    LET ind == binary_search_find_index(vec, pt)
    IN  IF ind >= 0
        THEN IF rm_if_found
             THEN [first |-> TRUE, second |-> erase(vec, ind) # <<>>,
                   vec |-> erase(vec, ind)]
             ELSE [first |-> TRUE, second |-> TRUE, vec |-> vec]
        ELSE [first |-> FALSE, second |-> TRUE, vec |-> vec]

SeqToSet(sq) ==
    {sq[i] : i \in 1..Len(sq)}

\* ------------------------------------------------------------------------
\* Statistics (struct stats_t): a function from counter name to count
\* ------------------------------------------------------------------------
StatNames ==
    { "num_node", "num_error", "num_excluded", "num_excl_fn", "num_derefed",
      "num_hidden_skipped", "num_sym_s_dangle", "num_sym_s_enoent",
      "num_follow_sym_outside", "num_oth_fs_skipped", "num_dir_d_success",
      "num_dir_d_exists", "num_dir_d_fail", "num_sym_d_success",
      "num_reg_tries", "num_reg_success", "num_reg_s_at_reglen",
      "num_reg_s_eacces", "num_reg_s_eperm", "num_reg_s_eio",
      "num_reg_s_enoent_enodev_enxio", "num_reg_s_e_other",
      "num_reg_s_eagain", "num_reg_s_timeout",
      "num_reg_d_enoent_enodev_enxio", "num_reg_d_e_other",
      "num_reg_from_cache_err", "num_mknod_d_eperm", "num_mknod_d_fail",
      "num_mknod_d_eacces", "num_block", "num_char",
      "num_prune_exact", "num_pruned_node", "num_prune_sym_pt_err",
      "num_prune_sym_outside", "num_prune_err", "num_scan_failed" }

Inc(q, name) ==
    [q EXCEPT ![name] = @ + 1]

reg_s_err_stats(err, q) ==
    IF err = "EACCES" THEN Inc(q, "num_reg_s_eacces")
    ELSE IF err = "EPERM" THEN Inc(q, "num_reg_s_eperm")
    ELSE IF err = "EIO" THEN Inc(q, "num_reg_s_eio")
    ELSE IF err \in {"ENOENT", "ENODEV", "ENXIO"}
    THEN Inc(q, "num_reg_s_enoent_enodev_enxio")
    ELSE Inc(q, "num_reg_s_e_other")

\* read_err_wait() when --wait= is not given: EAGAIN is counted and then
\* classed like any other errno
read_err_wait(err, q) ==
    reg_s_err_stats(err, IF err = "EAGAIN" THEN Inc(q, "num_reg_s_eagain") ELSE q)

reg_d_err_stats(err, q) ==
    IF err = "ENOENT" THEN Inc(q, "num_reg_d_enoent_enodev_enxio")
    ELSE Inc(q, "num_reg_d_e_other")

\* ------------------------------------------------------------------------
\* The destination file system.  A node is [kind, len, data, target, from]:
\* data names what a regular file holds, from the source entry it was
\* made for.
\* ------------------------------------------------------------------------
DNode(kind, len, data, target, from) ==
    [kind |-> kind, len |-> len, data |-> data, target |-> target, from |-> from]

\* the first len bytes of the source file src
Bytes(src, len) ==
    [tag |-> "bytes", path |-> src, len |-> len]

\* the string of path pt followed by "\n"
PathNl(pt) ==
    [tag |-> "path_nl", path |-> pt, len |-> str_size(pt) + 1]

NoData ==
    [tag |-> "none", path |-> NoPath, len |-> 0]

Put(dst, p, node) ==
    [x \in DOMAIN dst \cup {p} |-> IF x = p THEN node ELSE dst[x]]

\* errno of creating the new name p in the destination, "ok" when it can be
dst_parent_err(dst, p) ==
    IF parent_path(p) \notin DOMAIN dst THEN "ENOENT"
    ELSE IF dst[parent_path(p)].kind # "directory" THEN "ENOTDIR"
    ELSE "ok"

\* fs::create_directory(p, ec): [ec, made, dst]
create_directory(dst, p, from) ==
    IF p \in DOMAIN dst
    THEN IF status(dst, p) = "directory"
         THEN [ec |-> "ok", made |-> FALSE, dst |-> dst]
         ELSE [ec |-> "EEXIST", made |-> FALSE, dst |-> dst]
    ELSE IF dst_parent_err(dst, p) # "ok"
    THEN [ec |-> dst_parent_err(dst, p), made |-> FALSE, dst |-> dst]
    ELSE [ec |-> "ok", made |-> TRUE,
          dst |-> Put(dst, p, DNode("directory", 0, NoData, <<>>, from))]

\* a create_symlink() that writes the link text joined to the directory of
\* the source link instead of the raw text
create_symlink_joined(dst, target, p, from) ==
    IF p \in DOMAIN dst THEN [ec |-> "EEXIST", dst |-> dst]
    ELSE IF dst_parent_err(dst, p) # "ok"
    THEN [ec |-> dst_parent_err(dst, p), dst |-> dst]
    ELSE [ec |-> "ok",
          dst |-> Put(dst, p, DNode("symlink", 0, NoData,
                                    <<"/">> \o join_path(parent_path(from), target),
                                    from))]

\* fs::create_symlink(target, p, ec): [ec, dst]
create_symlink(dst, target, p, from) ==
    IF p \in DOMAIN dst THEN [ec |-> "EEXIST", dst |-> dst]
    ELSE IF dst_parent_err(dst, p) # "ok"
    THEN [ec |-> dst_parent_err(dst, p), dst |-> dst]
    ELSE [ec |-> "ok", dst |-> Put(dst, p, DNode("symlink", 0, NoData, target, from))]

\* mknod(2): [ec, dst]; only root may make device nodes
mknod(dst, p, kind, from, euid_root) ==
    IF p \in DOMAIN dst THEN [ec |-> "EEXIST", dst |-> dst]
    ELSE IF dst_parent_err(dst, p) # "ok"
    THEN [ec |-> dst_parent_err(dst, p), dst |-> dst]
    ELSE IF ~euid_root THEN [ec |-> "EPERM", dst |-> dst]
    ELSE [ec |-> "ok", dst |-> Put(dst, p, DNode(kind, 0, NoData, <<>>, from))]

\* the part of creat_write() that follows the evaluation of c
creat_write_c(c, dst, data, from) ==
    IF c.ok /\ dst[c.path].kind = "regular"
    THEN [ec |-> "ok",
          dst |-> Put(dst, c.path, DNode("regular", data.len, data, <<>>, from))]
    ELSE IF c.ok THEN [ec |-> "EISDIR", dst |-> dst]
    ELSE [ec |-> c.err, dst |-> dst]

\* creat(2) or open(2) with O_CREAT | O_TRUNC, then write(2) of data:
\* an existing symlink is followed, an existing directory refuses
creat_write(dst, p, data, from) ==
    IF p \in DOMAIN dst /\ dst[p].kind = "symlink"
    THEN creat_write_c(canonical(dst, join_path(parent_path(p), dst[p].target)), dst, data,
                       from)
    ELSE IF p \in DOMAIN dst /\ dst[p].kind = "directory"
    THEN [ec |-> "EISDIR", dst |-> dst]
    ELSE IF p \in DOMAIN dst /\ dst[p].kind # "regular"
    THEN [ec |-> "ok", dst |-> dst]
    ELSE IF dst_parent_err(dst, p) # "ok"
    THEN [ec |-> dst_parent_err(dst, p), dst |-> dst]
    ELSE [ec |-> "ok",
          dst |-> Put(dst, p, DNode("regular", data.len, data, <<>>, from))]

\* ------------------------------------------------------------------------
\* Regular files and other file types
\* ------------------------------------------------------------------------
Min(a, b) ==
    IF a < b THEN a ELSE b

\* a read loop that does not stop at reglen bytes
RECURSIVE read_loop_whole(_, _, _, _)
read_loop_whole(size, chunk, reglen, off) ==
    LET num == Min(size - off, chunk)
    IN  IF num < reg_re_read_sz THEN off + num
        ELSE read_loop_whole(size, chunk, reglen, off + num)

\* the do-while loop of xfr_reg_file2file() and xfr_reg_file2inmem(): off
\* bytes are held, read(2) returns at most chunk bytes of what is left of
\* the file; the result is the final off
RECURSIVE read_loop(_, _, _, _)
read_loop(size, chunk, reglen, off) ==
    LET num == Min(reglen - off, Min(size - off, chunk))
    IN  IF num < reg_re_read_sz THEN off + num
        ELSE read_loop(size, chunk, reglen, off + num)

\* the part of xfr_vec2file() that follows the evaluation of w
xfr_vec2file_w(w, q) ==
    LET q1 == IF w.ec # "ok" THEN reg_d_err_stats(w.ec, q) ELSE q
    IN  [res |-> "ok", dst |-> w.dst, q |-> Inc(q1, "num_reg_success")]

\* xfr_vec2file(): [res, dst, q]; res is never assigned after its
\* initialisation to 0
xfr_vec2file(dst, q, data, destin_file, from) ==
    xfr_vec2file_w(creat_write(dst, destin_file, data, from), q)

\* the part of read_reg_file() that follows the evaluation of c
read_reg_file_c(c, fsys, reglen, q1) ==
    IF ~c.ok
    THEN [res |-> c.err, num |-> -1, q |-> reg_s_err_stats(c.err, q1), src |-> NoPath]
    ELSE IF fsys[c.path].kind # "regular"
    THEN [res |-> "ok", num |-> 0, q |-> q1, src |-> c.path]
    ELSE IF fsys[c.path].open_err = "EACCES"
    THEN [res |-> "ok", num |-> 0, q |-> q1, src |-> c.path]
    ELSE IF fsys[c.path].open_err # "ok"
    THEN [res |-> fsys[c.path].open_err, num |-> -1,
          q |-> reg_s_err_stats(fsys[c.path].open_err, q1), src |-> NoPath]
    ELSE IF reglen > 0 /\ fsys[c.path].read_err # "ok"
    THEN [res |-> "ok", num |-> 0, q |-> read_err_wait(fsys[c.path].read_err, q1),
          src |-> c.path]
    ELSE LET num == IF reglen > 0
                    THEN read_loop(fsys[c.path].size, fsys[c.path].chunk, reglen, 0)
                    ELSE 0
         IN  [res |-> "ok", num |-> num,
              q |-> IF num >= reglen THEN Inc(q1, "num_reg_s_at_reglen") ELSE q1,
              src |-> c.path]

\* what open(2), fstat(2) and the read loop leave in the buffer:
\* [res, num, q, src]
read_reg_file(fsys, q, from_file, reglen) ==
    LET q1 == Inc(q, "num_reg_tries")
    IN  read_reg_file_c(canonical(fsys, from_file), fsys, reglen, q1)

\* the part of xfr_reg_file2file() that follows the evaluation of r
xfr_reg_file2file_r(r, dst, destin_file, from) ==
    IF r.num < 0 THEN [res |-> r.res, dst |-> dst, q |-> r.q]
    ELSE xfr_vec2file(dst, r.q, Bytes(r.src, r.num), destin_file, from)

\* xfr_reg_file2file(): [res, dst, q]
xfr_reg_file2file(fsys, dst, q, from_file, destin_file, reglen, from) ==
    xfr_reg_file2file_r(read_reg_file(fsys, q, from_file, reglen), dst, destin_file, from)

\* xfr_other_ft(): [ec, dst, q]
xfr_other_ft(fsys, dst, q, ft, src_pt, dst_pt, opt) ==
    IF ft = "regular"
    THEN LET r == xfr_reg_file2file(fsys, dst, q, src_pt, dst_pt, opt.reglen, src_pt)
         IN  [ec |-> r.res, dst |-> r.dst,
              q |-> IF r.res # "ok" THEN Inc(r.q, "num_error") ELSE r.q]
    ELSE IF ft \in {"block", "character"}
    THEN LET r == mknod(dst, dst_pt, ft, src_pt, opt.euid_root)
         IN  [ec |-> r.ec, dst |-> r.dst,
              q |-> IF r.ec = "ok" THEN q
                    ELSE IF r.ec = "EPERM" THEN Inc(q, "num_mknod_d_eperm")
                    ELSE Inc(q, "num_mknod_d_fail")]
    ELSE [ec |-> "ok", dst |-> dst, q |-> q]

\* ------------------------------------------------------------------------
\* The single-pass scanner: dir_clone_work, symlink_clone_work and the body
\* of the loop of clone_work
\* ------------------------------------------------------------------------
NoCall ==
    [src_pt |-> NoPath, dst_pt |-> NoPath]

\* fs::proximate(pt, base) for pt at or below base
proximate(pt, base) ==
    SubSeq(pt, Len(base) + 1, Len(pt))

\* lhs / rhs with an absolute rhs: operator/ replaces lhs
path_div_abs(lhs, rhs) ==
    rhs

\* a dir_clone_work() that leaves the recursion pending whatever st_dev is
dir_clone_work_descend(dst, q, pt, st_dev, ongoing_d_pt, opt, mut) ==
    LET there == status(dst, ongoing_d_pt)
        r == create_directory(dst, ongoing_d_pt, pt)
    IN  IF ~opt.destin_all_new /\ there # "not_found"
        THEN [dst |-> dst, disable |-> FALSE,
              q |-> IF there = "directory" THEN Inc(q, "num_dir_d_exists") ELSE q]
        ELSE [dst |-> r.dst, disable |-> FALSE,
              q |-> IF r.made THEN Inc(q, "num_dir_d_success")
                    ELSE IF r.ec # "ok" THEN Inc(q, "num_dir_d_fail")
                    ELSE Inc(q, "num_dir_d_exists")]

\* dir_clone_work(): [dst, q, disable]; disable tells that
\* itr.disable_recursion_pending() was called
dir_clone_work(dst, q, pt, st_dev, ongoing_d_pt, opt, mut) ==
    LET xdev == ~opt.no_xdev /\ st_dev # mut.starting_fs_inst
        q1 == IF xdev THEN Inc(q, "num_oth_fs_skipped") ELSE q
        there == status(dst, ongoing_d_pt)
        r == create_directory(dst, ongoing_d_pt, pt)
    IN  IF ~opt.destin_all_new /\ there # "not_found"
        THEN [dst |-> dst, disable |-> xdev,
              q |-> IF there = "directory" THEN Inc(q1, "num_dir_d_exists") ELSE q1]
        ELSE [dst |-> r.dst, disable |-> xdev,
              q |-> IF r.made THEN Inc(q1, "num_dir_d_success")
                    ELSE IF r.ec # "ok" THEN Inc(q1, "num_dir_d_fail")
                    ELSE Inc(q1, "num_dir_d_exists")]

\* the label process_as_symlink of symlink_clone_work(): [dst, q, ec, call]
process_as_symlink(dst, q, target_pt, d_lnk_pt, pt) ==
    LET r == create_symlink(dst, target_pt, d_lnk_pt, pt)
    IN  [dst |-> r.dst, ec |-> r.ec, call |-> NoCall,
         q |-> IF r.ec # "ok" THEN Inc(q, "num_error") ELSE Inc(q, "num_sym_d_success")]

\* the deref_entry branch of symlink_clone_work(): [dst, q, ec, call]
deref_clone_work(fsys, dst, q, pt, d_lnk_pt, ongoing_d_pt, opt) ==
    LET target_pt == fsys[pt].target
        canon == canonical(fsys, join_path(parent_path(pt), target_pt))
        s_targ_ftype == fsys[canon.path].kind
        mk == create_directory(dst, d_lnk_pt, pt)
        deep_d_pt == path_div_abs(ongoing_d_pt, d_lnk_pt)
        v == xfr_vec2file(mk.dst, q, PathNl(canon.path),
                          Append(d_lnk_pt, src_symlink_tgt_path), pt)
        x == xfr_other_ft(fsys, dst, q, "regular", canon.path, d_lnk_pt, opt)
    IN  IF ~canon.ok
        THEN [dst |-> dst, q |-> Inc(q, "num_sym_s_dangle"), ec |-> canon.err,
              call |-> NoCall]
        ELSE IF ~path_contains_canon(opt.source_pt, canon.path)
        THEN process_as_symlink(dst, Inc(q, "num_follow_sym_outside"), target_pt,
                                d_lnk_pt, pt)
        ELSE IF s_targ_ftype = "directory"
        THEN IF mk.ec # "ok"
             THEN [dst |-> dst, q |-> Inc(q, "num_dir_d_fail"), ec |-> mk.ec,
                   call |-> NoCall]
             ELSE [dst |-> v.dst, q |-> v.q, ec |-> "ok",
                   call |-> [src_pt |-> canon.path, dst_pt |-> deep_d_pt]]
        ELSE IF s_targ_ftype = "regular"
        THEN [dst |-> x.dst, q |-> x.q, ec |-> "ok", call |-> NoCall]
        ELSE process_as_symlink(dst, q, target_pt, d_lnk_pt, pt)

\* symlink_clone_work(): [dst, q, ec, call]; call names the nested
\* clone_work() the function goes on to make
symlink_clone_work(fsys, dst, q, pt, prox_pt, ongoing_d_pt, deref_entry, opt) ==
    LET target_pt == fsys[pt].target
        d_lnk_pt == Append(prox_pt, filename(pt))
        d_lnk_ftype == symlink_status(dst, d_lnk_pt)
        err == symlink_status_err(dst, d_lnk_pt)
    IN  IF ~opt.destin_all_new /\ d_lnk_ftype = "not_found"
        THEN \* symlink_status() reports the errno in ec together with not_found
             [dst |-> dst, ec |-> err, call |-> NoCall,
              q |-> IF err = "ENOENT" THEN Inc(q, "num_sym_s_enoent")
                    ELSE Inc(q, "num_sym_s_dangle")]
        ELSE IF ~opt.destin_all_new /\ d_lnk_ftype = "symlink"
        THEN [dst |-> dst, q |-> q, ec |-> "ok", call |-> NoCall]
        ELSE IF ~opt.destin_all_new /\ deref_entry /\ d_lnk_ftype = "directory"
        THEN [dst |-> dst, q |-> q, ec |-> "ok", call |-> NoCall]
        ELSE IF ~opt.destin_all_new
        THEN [dst |-> dst, q |-> Inc(q, "num_error"), ec |-> "ok", call |-> NoCall]
        ELSE IF deref_entry
        THEN deref_clone_work(fsys, dst, q, pt, d_lnk_pt, ongoing_d_pt, opt)
        ELSE process_as_symlink(dst, q, target_pt, d_lnk_pt, pt)

\* the body of the for loop of clone_work() for entry pt at iterator depth
\* depth, in the call with frame fr:
\* [dst, q, mut, possible_exclude, possible_deref, disable, call]
clone_entry(fsys, fr, pt, depth, dst, q, mut, opt) ==
    LET s_sym_ftype == fsys[pt].kind
        st == canonical(fsys, pt)
        q1 == Inc(q, "num_node")
        q2 == IF st.ok THEN q1
              ELSE IF s_sym_ftype = "symlink" THEN Inc(q1, "num_sym_s_dangle")
              ELSE Inc(q1, "num_error")
        at_max == opt.max_depth_active /\ s_sym_ftype = "directory"
                  /\ depth >= opt.max_depth
        hidden_entry == filename(pt) \in HiddenNames
        dr == IF fr.possible_deref /\ s_sym_ftype = "symlink"
              THEN find_in_sorted_vec(mut.deref_v, pt, TRUE)
              ELSE [first |-> FALSE, second |-> fr.possible_deref, vec |-> mut.deref_v]
        deref_entry == dr.first
        q3 == IF deref_entry THEN Inc(q2, "num_derefed") ELSE q2
        ex == IF ~deref_entry /\ fr.possible_exclude
              THEN find_in_sorted_vec(mut.glob_exclude_v, pt, TRUE)
              ELSE [first |-> FALSE, second |-> fr.possible_exclude,
                    vec |-> mut.glob_exclude_v]
        q4 == IF ex.first THEN Inc(q3, "num_excluded") ELSE q3
        fn_hit == ~deref_entry /\ opt.excl_fn_v # <<>>
                  /\ binary_search_find_index(opt.excl_fn_v, <<filename(pt)>>) >= 0
        q5 == IF fn_hit THEN Inc(q4, "num_excl_fn") ELSE q4
        exclude_entry == ex.first \/ fn_hit
        mut1 == [mut EXCEPT !.deref_v = dr.vec, !.glob_exclude_v = ex.vec]
        base == [dst |-> dst, q |-> q5, mut |-> mut1,
                 possible_exclude |-> ex.second, possible_deref |-> dr.second,
                 disable |-> at_max, call |-> NoCall]
        ongoing_d_pt == fr.dst_pt \o proximate(pt, fr.src_pt)
        parent_pt == parent_path(pt)
        prox_pt == IF parent_pt # fr.src_pt
                   THEN fr.dst_pt \o proximate(parent_pt, fr.src_pt)
                   ELSE fr.dst_pt
        d == dir_clone_work(dst, q5, pt, fsys[pt].dev, ongoing_d_pt, opt, mut)
        y == symlink_clone_work(fsys, dst, q5, pt, prox_pt, ongoing_d_pt,
                                deref_entry, opt)
        x == xfr_other_ft(fsys, dst, q5, s_sym_ftype, pt, ongoing_d_pt, opt)
    IN  IF ~opt.clone_hidden /\ hidden_entry
        THEN [base EXCEPT !.q = Inc(q5, "num_hidden_skipped"),
                          !.disable = at_max \/ s_sym_ftype = "directory"]
        ELSE IF s_sym_ftype = "directory"
        THEN IF exclude_entry THEN [base EXCEPT !.disable = TRUE]
             ELSE [base EXCEPT !.dst = d.dst, !.q = d.q,
                               !.disable = at_max \/ d.disable]
        ELSE IF s_sym_ftype = "symlink"
        THEN IF exclude_entry THEN base
             ELSE [base EXCEPT !.dst = y.dst, !.q = y.q, !.call = y.call]
        ELSE IF exclude_entry THEN base
        ELSE [base EXCEPT !.dst = x.dst, !.q = x.q]

\* ------------------------------------------------------------------------
\* fs::recursive_directory_iterator: lv holds, per open directory, the
\* names not yet returned; pend is the directory that the next increment
\* descends into (NoPath when recursion is not pending)
\* ------------------------------------------------------------------------
RECURSIVE pop_finished(_)
pop_finished(lv) ==
    IF lv = <<>> THEN <<>>
    ELSE IF lv[Len(lv)].rem = {} THEN pop_finished(SubSeq(lv, 1, Len(lv) - 1))
    ELSE lv

\* the open directories after the constructor or itr.increment()
itr_levels(fsys, fr) ==
    pop_finished(IF fr.pend # NoPath
                 THEN Append(fr.lv, [dir |-> fr.pend, rem |-> ChildNames(fsys, fr.pend)])
                 ELSE fr.lv)

\* the iterator after returning name from its innermost directory
itr_take(lv, name) ==
    [lv EXCEPT ![Len(lv)].rem = @ \ {name}]

\* ------------------------------------------------------------------------
\* The in-memory tree.  A node is reached by its index path: the indexes
\* into the sdir_v vectors from the root node <<>> down.  prune_mask is the
\* set of the bits that are set; from is the scanned source entry the node
\* was made for.
\* ------------------------------------------------------------------------
NullP ==
    <<-1>>

INode(kind, fn, st_dev, from) ==
    [kind |-> kind, filename |-> fn, st_dev |-> st_dev, par_dir_ind |-> 0,
     prune_mask |-> {}, is_root |-> FALSE, nsub |-> 0, par_pt_s |-> NoPath,
     depth |-> -3, target |-> <<>>, contents |-> NoData,
     read_found_nothing |-> FALSE, always_use_contents |-> FALSE,
     is_block_dev |-> FALSE, sdir_fn_ind_m |-> <<>>, from |-> from]

\* inmem_dir_t::get_subd_ivp(): the child at index, NullP when out of range
get_subd_ivp(t, dirp, index) ==
    IF dirp \in DOMAIN t /\ index >= 0 /\ index < t[dirp].nsub
    THEN Append(dirp, index) ELSE NullP

\* std::get_if<inmem_dir_t>()
get_if_dir(t, ptr) ==
    IF ptr \in DOMAIN t /\ t[ptr].kind = "directory" THEN ptr ELSE NullP

\* inmem_dir_t::add_to_sdir_v(): [ind, tree]; the new node goes to the end
\* of sdir_v
add_to_sdir_v(t, dirp, node) ==
    LET sz == t[dirp].nsub
        np == Append(dirp, sz)
        mm == t[dirp].sdir_fn_ind_m
    IN  [ind |-> sz,
         tree |-> [x \in DOMAIN t \cup {np} |->
                     IF x = np THEN node
                     ELSE IF x = dirp
                     THEN [t[x] EXCEPT !.nsub = sz + 1,
                                       !.sdir_fn_ind_m =
                                           IF node.kind = "directory"
                                           THEN [fn \in DOMAIN mm \cup {node.filename} |->
                                                   IF fn = node.filename THEN sz
                                                   ELSE mm[fn]]
                                           ELSE mm]
                     ELSE t[x]]]

\* sdir_fn_ind_m.find(ss): the slot the map holds for ss, -1 for end()
sdir_fn_ind_m_find(t, dirp, ss) ==
    IF ss \in DOMAIN t[dirp].sdir_fn_ind_m THEN t[dirp].sdir_fn_ind_m[ss] ELSE -1

\* the part of xfr_reg_file2inmem() that follows the evaluation of r
xfr_reg_file2inmem_r(r, ireg) ==
    IF r.num < 0 THEN [res |-> r.res, q |-> r.q, ireg |-> ireg]
    ELSE IF r.num > 0
    THEN [res |-> "ok", q |-> r.q,
          ireg |-> [ireg EXCEPT !.contents = Bytes(r.src, r.num),
                                !.read_found_nothing = FALSE]]
    ELSE [res |-> "ok", q |-> r.q,
          ireg |-> [ireg EXCEPT !.read_found_nothing = TRUE]]

\* xfr_reg_file2inmem(): [res, q, ireg]
xfr_reg_file2inmem(fsys, q, from_file, ireg, reglen) ==
    xfr_reg_file2inmem_r(read_reg_file(fsys, q, from_file, reglen), ireg)

\* a cache_reg() that sets the exact bit whether or not the entry matched
cache_reg_mark_any(fsys, t, q, l_odirp, st_dev, s_pt, mark_prune, opt) ==
    LET a_reg == [INode("regular", filename(s_pt), st_dev, s_pt) EXCEPT
                    !.prune_mask = {prune_exact}]
        a == add_to_sdir_v(t, l_odirp, a_reg)
    IN  [tree |-> a.tree, q |-> q]

\* cache_reg(): [tree, q]
cache_reg(fsys, t, q, l_odirp, st_dev, s_pt, mark_prune, opt) ==
    LET a_reg == [INode("regular", filename(s_pt), st_dev, s_pt) EXCEPT
                    !.prune_mask = IF mark_prune THEN {prune_exact} ELSE {}]
        q1 == IF mark_prune THEN Inc(q, "num_prune_exact") ELSE q
        a == add_to_sdir_v(t, l_odirp, a_reg)
        x == xfr_reg_file2inmem(fsys, q1, s_pt, a_reg, opt.reglen)
    IN  IF opt.cache_op_num > 1
        THEN [tree |-> [a.tree EXCEPT ![Append(l_odirp, a.ind)] = x.ireg],
              q |-> IF x.res # "ok" THEN Inc(x.q, "num_reg_from_cache_err") ELSE x.q]
        ELSE [tree |-> a.tree, q |-> q1]

NoCacheCall ==
    [start_dirp |-> NullP, osrc_pt |-> NoPath]

\* symlink_cache_src(): [tree, q, ec, call]; call names the nested
\* cache_src() the function goes on to make
symlink_cache_src(fsys, t, q, pt, st_dev, l_odirp, deref_entry, got_prune_exact, opt) ==
    LET filename_pt == filename(pt)
        par_pt == parent_path(pt)
        target_pt == fsys[pt].target
        a_sym == [INode("symlink", filename_pt, st_dev, pt) EXCEPT
                    !.target = target_pt,
                    !.prune_mask = IF got_prune_exact THEN {prune_exact} ELSE {}]
        q1 == IF got_prune_exact THEN Inc(q, "num_prune_exact") ELSE q
        as_symlink(qq) == [tree |-> add_to_sdir_v(t, l_odirp, a_sym).tree, q |-> qq,
                           ec |-> "ok", call |-> NoCacheCall]
        canon == canonical(fsys, join_path(par_pt, target_pt))
        s_targ_ftype == fsys[canon.path].kind
        pd == path_depth(par_pt, opt.source_pt, opt.source_pt)
        a_dir == [INode("directory", filename_pt, st_dev, pt) EXCEPT
                    !.par_pt_s = par_pt,
                    !.depth = (IF pd.ec # "ok" THEN 0 ELSE pd.res) + 1]
        ad == add_to_sdir_v(t, l_odirp, a_dir)
        new_dirp == Append(l_odirp, ad.ind)
        a_reg == [INode("regular", src_symlink_tgt_path, st_dev, pt) EXCEPT
                    !.contents = PathNl(canon.path),
                    !.always_use_contents = TRUE]
        cr == cache_reg(fsys, t, q1, l_odirp, st_dev, pt, FALSE, opt)
    IN  IF ~deref_entry THEN as_symlink(q1)
        ELSE IF ~canon.ok
        THEN [tree |-> t, q |-> Inc(q1, "num_sym_s_dangle"), ec |-> canon.err,
              call |-> NoCacheCall]
        ELSE IF ~path_contains_canon(opt.source_pt, canon.path)
        THEN as_symlink(Inc(q1, "num_follow_sym_outside"))
        ELSE IF s_targ_ftype = "directory"
        THEN [tree |-> add_to_sdir_v(ad.tree, new_dirp, a_reg).tree, q |-> q1,
              ec |-> "ok",
              call |-> [start_dirp |-> new_dirp, osrc_pt |-> canon.path]]
        ELSE IF s_targ_ftype = "regular"
        THEN [tree |-> cr.tree, q |-> cr.q, ec |-> "ok", call |-> NoCacheCall]
        ELSE [tree |-> t, q |-> q1, ec |-> "ok", call |-> NoCacheCall]

\* the second loop of cache_recalc_grandparent(): step down from dirp along
\* the components vs: [ec, dirp]
RECURSIVE step_down(_, _, _)
step_down(t, dirp, vs) ==
    IF vs = <<>> THEN [ec |-> "ok", dirp |-> dirp]
    ELSE LET ind == sdir_fn_ind_m_find(t, dirp, Head(vs))
         IN  IF ind < 0 THEN [ec |-> "ENOENT", dirp |-> NullP]
             ELSE IF get_if_dir(t, Append(dirp, ind)) = NullP
             THEN [ec |-> "ENOTDIR", dirp |-> NullP]
             ELSE step_down(t, Append(dirp, ind), Tail(vs))

\* the part of cache_recalc_grandparent() that follows the evaluation of sp
cache_recalc_grandparent_sp(sp, t, odirp, l_odirp, opt) ==
    LET excl_fn_match == \E i \in 1..Len(sp.vs) :
                            binary_search_find_index(opt.excl_fn_v, <<sp.vs[i]>>) >= 0
        w == step_down(t, odirp, sp.vs)
    IN  IF sp.ec # "ok" THEN [ok |-> FALSE, ec |-> sp.ec, l_odirp |-> l_odirp]
        ELSE IF opt.excl_fn_v # <<>> /\ excl_fn_match
        THEN [ok |-> FALSE, ec |-> "ok", l_odirp |-> l_odirp]
        ELSE IF w.ec # "ok" THEN [ok |-> FALSE, ec |-> w.ec, l_odirp |-> l_odirp]
        ELSE [ok |-> TRUE, ec |-> "ok", l_odirp |-> w.dirp]

\* cache_recalc_grandparent(): [ok, ec, l_odirp]
cache_recalc_grandparent(t, par_pt, osrc_pt, odirp, l_odirp, opt) ==
    cache_recalc_grandparent_sp(split_path(par_pt, osrc_pt, opt.source_pt), t, odirp, l_odirp,
                                opt)

\* the body of the for loop of cache_src() for entry pt at iterator depth
\* depth, in the call with frame fr: [tree, q, mut, fr, disable, call, ret];
\* fr is the frame with the locals as the iteration leaves them, ret is
\* "none" or the error_code that cache_src() returns from inside the loop
cache_entry(fsys, fr, pt, depth, t, q, mut, opt) ==
    LET s_sym_ftype == fsys[pt].kind
        l_isdir == s_sym_ftype = "directory"
        par_pt == parent_path(pt)
        st_dev == fsys[pt].dev
        \* lines 2464-2491: where the parent of this entry is in the tree
        down == depth > fr.prev_depth
        up == depth < fr.prev_depth
        short_cut == up /\ depth = fr.prev_depth - 1 /\ fr.prev_odirp # NullP
        g == cache_recalc_grandparent(t, par_pt, fr.osrc_pt, fr.start_dirp,
                                      fr.l_odirp, opt)
        l_odirp == IF down
                   THEN IF fr.prev_dir_ind >= 0
                        THEN get_if_dir(t, Append(fr.l_odirp, fr.prev_dir_ind))
                        ELSE fr.l_odirp
                   ELSE IF short_cut THEN fr.prev_odirp
                   ELSE IF up THEN g.l_odirp
                   ELSE fr.l_odirp
        prev_odirp == IF down
                      THEN IF depth = fr.prev_depth + 1 THEN fr.l_odirp ELSE NullP
                      ELSE IF up THEN NullP
                      ELSE fr.prev_odirp
        fatal == up /\ ~short_cut /\ ~g.ok
        q1 == Inc(q, "num_node")
        at_max == opt.max_depth_active /\ l_isdir /\ depth >= opt.max_depth
        st == canonical(fsys, pt)
        dangling == ~st.ok /\ s_sym_ftype = "symlink" /\ st.err = "ENOENT"
        q2 == IF st.ok THEN q1
              ELSE IF dangling THEN Inc(q1, "num_sym_s_dangle")
              ELSE Inc(q1, "num_error")
        hidden_entry == filename(pt) \in HiddenNames
        dr == IF fr.possible_deref /\ s_sym_ftype = "symlink"
              THEN find_in_sorted_vec(mut.deref_v, pt, TRUE)
              ELSE [first |-> FALSE, second |-> fr.possible_deref, vec |-> mut.deref_v]
        deref_entry == dr.first
        q3 == IF deref_entry THEN Inc(q2, "num_derefed") ELSE q2
        ex == IF ~deref_entry /\ fr.possible_exclude
              THEN find_in_sorted_vec(mut.glob_exclude_v, pt, TRUE)
              ELSE [first |-> FALSE, second |-> fr.possible_exclude,
                    vec |-> mut.glob_exclude_v]
        q4 == IF ex.first THEN Inc(q3, "num_excluded") ELSE q3
        fn_hit == ~deref_entry /\ opt.excl_fn_v # <<>>
                  /\ binary_search_find_index(opt.excl_fn_v, <<filename(pt)>>) >= 0
        q5 == IF fn_hit THEN Inc(q4, "num_excl_fn") ELSE q4
        exclude_entry == ex.first \/ fn_hit
        pr == IF fr.possible_prune /\ s_sym_ftype \in {"directory", "symlink", "regular"}
              THEN find_in_sorted_vec(mut.prune_v, pt, TRUE)
              ELSE [first |-> FALSE, second |-> fr.possible_prune, vec |-> mut.prune_v]
        got_prune_exact == pr.first
        mut1 == [mut EXCEPT !.deref_v = dr.vec, !.glob_exclude_v = ex.vec,
                            !.prune_v = pr.vec]
        fr1 == [fr EXCEPT !.l_odirp = l_odirp, !.prev_odirp = prev_odirp,
                          !.prev_depth = depth]
        fr2 == [fr1 EXCEPT !.possible_deref = dr.second,
                           !.possible_exclude = ex.second,
                           !.possible_prune = pr.second]
        skip(qq, frm, m, dis) ==
            [tree |-> t, q |-> qq, mut |-> m, fr |-> frm, disable |-> dis,
             call |-> NoCacheCall, ret |-> "none"]
        xdev == ~opt.no_xdev /\ st_dev # mut.starting_fs_inst
        y == symlink_cache_src(fsys, t, q5, pt, st_dev, l_odirp, deref_entry,
                               got_prune_exact, opt)
        a_dir == [INode("directory", filename(pt), st_dev, pt) EXCEPT
                    !.par_pt_s = par_pt, !.depth = depth,
                    !.prune_mask = IF got_prune_exact THEN {prune_exact} ELSE {}]
        qd == IF got_prune_exact THEN Inc(q5, "num_prune_exact") ELSE q5
        ad == add_to_sdir_v(t, l_odirp, a_dir)
        a_dev == [INode("device", filename(pt), st_dev, pt) EXCEPT
                    !.is_block_dev = (s_sym_ftype = "block")]
        cr == cache_reg(fsys, t, q5, l_odirp, st_dev, pt, got_prune_exact, opt)
    IN  IF fatal
        THEN [skip(q, fr1, mut, FALSE) EXCEPT !.ret = g.ec]
        ELSE IF ~st.ok /\ ~dangling THEN skip(q2, fr1, mut, at_max)
        ELSE IF l_isdir /\ (exclude_entry \/ at_max) THEN skip(q5, fr2, mut1, TRUE)
        ELSE IF ~l_isdir /\ exclude_entry THEN skip(q5, fr2, mut1, FALSE)
        ELSE IF ~opt.clone_hidden /\ hidden_entry
        THEN skip(Inc(IF l_isdir /\ xdev THEN Inc(q5, "num_oth_fs_skipped") ELSE q5,
                      "num_hidden_skipped"),
                  fr2, mut1, l_isdir)
        ELSE IF l_odirp = NullP
        THEN \* the entry would be added through a null pointer
             [skip(q5, fr2, mut1, FALSE) EXCEPT !.ret = "SIGSEGV"]
        ELSE IF s_sym_ftype = "symlink"
        THEN [tree |-> y.tree, q |-> y.q, mut |-> mut1,
              fr |-> IF y.call # NoCacheCall
                     THEN [fr2 EXCEPT !.l_odirp = y.call.start_dirp,
                                      !.saved_odirp = l_odirp]
                     ELSE fr2,
              disable |-> FALSE, call |-> y.call, ret |-> "none"]
        ELSE IF l_isdir
        THEN [tree |-> ad.tree,
              q |-> IF xdev THEN Inc(qd, "num_oth_fs_skipped") ELSE qd,
              mut |-> mut1, fr |-> [fr2 EXCEPT !.prev_dir_ind = ad.ind],
              disable |-> xdev, call |-> NoCacheCall, ret |-> "none"]
        ELSE IF s_sym_ftype \in {"block", "character"}
        THEN [skip(q5, fr2, mut1, FALSE) EXCEPT
                !.tree = add_to_sdir_v(t, l_odirp, a_dev).tree]
        ELSE IF s_sym_ftype = "regular"
        THEN [skip(cr.q, fr2, mut1, FALSE) EXCEPT !.tree = cr.tree]
        ELSE IF s_sym_ftype \in {"fifo", "socket"} THEN skip(q5, fr2, mut1, FALSE)
        ELSE [skip(q5, fr2, mut1, FALSE) EXCEPT
                !.tree = add_to_sdir_v(t, l_odirp,
                                       INode("other", filename(pt), st_dev, pt)).tree]

\* ------------------------------------------------------------------------
\* Pass 2: prune propagation
\* ------------------------------------------------------------------------
SetMask(t, ptr, mask) ==
    [t EXCEPT ![ptr].prune_mask = mask]

\* the loop of prune_mark_up_chain(): step down from l_odirp along vs,
\* marking each directory that carries no mark: [tree, q, ec, first, second]
RECURSIVE mark_down(_, _, _, _)
mark_down(t, q, l_odirp, vs) ==
    IF vs = <<>>
    THEN [tree |-> t, q |-> q, ec |-> "ok", first |-> l_odirp, second |-> NullP]
    ELSE LET ss == Head(vs)
             ind == sdir_fn_ind_m_find(t, l_odirp, ss)
             regs == {i \in 0..(t[l_odirp].nsub - 1) :
                        /\ t[Append(l_odirp, i)].filename = ss
                        /\ t[Append(l_odirp, i)].kind = "regular"}
             childp == Append(l_odirp, ind)
             unmarked == t[childp].prune_mask = {}
         IN  IF ind < 0
             THEN IF regs # {}
                  THEN [tree |-> t, q |-> q, ec |-> "ok", first |-> NullP,
                        second |-> Append(l_odirp,
                                          CHOOSE i \in regs : \A j \in regs : i <= j)]
                  ELSE [tree |-> t, q |-> q, ec |-> "ENOENT", first |-> NullP,
                        second |-> NullP]
             ELSE mark_down(IF unmarked THEN SetMask(t, childp, {prune_up_chain}) ELSE t,
                            IF unmarked THEN Inc(q, "num_pruned_node") ELSE q,
                            childp, Tail(vs))

\* a walk down the chain that finds the nodes and marks none
prune_mark_up_chain_none(t, q, par_pt, opt) ==
    LET sp == split_path(par_pt, opt.source_pt, opt.source_pt)
        r == mark_down(t, q, <<>>, sp.vs)
    IN  IF sp.ec # "ok"
        THEN [tree |-> t, q |-> q, ec |-> sp.ec, first |-> NullP, second |-> NullP]
        ELSE [r EXCEPT !.tree = t, !.q = q]

\* the part of prune_mark_up_chain() that follows the evaluation of sp
prune_mark_up_chain_sp(sp, t, q) ==
    LET unmarked == t[<<>>].prune_mask = {}
    IN  IF sp.ec # "ok"
        THEN [tree |-> t, q |-> q, ec |-> sp.ec, first |-> NullP, second |-> NullP]
        ELSE mark_down(IF unmarked THEN SetMask(t, <<>>, {prune_up_chain}) ELSE t,
                       IF unmarked THEN Inc(q, "num_pruned_node") ELSE q,
                       <<>>, sp.vs)

\* prune_mark_up_chain(): [tree, q, ec, first, second]
prune_mark_up_chain(t, q, par_pt, opt) ==
    prune_mark_up_chain_sp(split_path(par_pt, opt.source_pt, opt.source_pt), t, q)

NoPruneCall ==
    [dirp |-> NullP, s_par_pt_s |-> NoPath, in_prune |-> FALSE]

\* the part of prune_prop_symlink() that follows the evaluation of m
prune_prop_symlink_m(m, opt, q1, t1, target_c) ==
    LET out(tt, qq, r) == [tree |-> tt, q |-> qq, ret |-> r, call |-> NoPruneCall]
    IN  IF ~target_c.ok THEN out(t1, Inc(q1, "num_prune_sym_pt_err"), FALSE)
        ELSE IF ~path_contains_canon(opt.source_pt, target_c.path)
        THEN out(t1, Inc(q1, "num_prune_sym_outside"), FALSE)
        ELSE IF opt.source_pt = target_c.path THEN out(t1, q1, FALSE)
        ELSE IF m.ec # "ok" THEN out(m.tree, Inc(m.q, "num_prune_sym_pt_err"), FALSE)
        ELSE IF m.second # NullP
        THEN out(SetMask(m.tree, m.second,
                         m.tree[m.second].prune_mask \cup {prune_all_below}),
                 m.q, TRUE)
        ELSE IF m.first # NullP
        THEN IF prune_all_below \in m.tree[m.first].prune_mask
             THEN out(m.tree, m.q, FALSE)
             ELSE [tree |-> m.tree, q |-> m.q, ret |-> TRUE,
                   call |-> [dirp |-> m.first,
                             s_par_pt_s |-> parent_path(target_c.path),
                             in_prune |-> TRUE]]
        ELSE out(m.tree, m.q, FALSE)

\* prune_prop_symlink() up to its return or its call of prune_prop_dir():
\* [tree, q, ret, call]; when call is not NoPruneCall the function returns
\* true after that call
prune_prop_symlink(fsys, t, q, csymp, src_dir_pt_s, opt) ==
    LET q1 == IF t[csymp].prune_mask = {} THEN Inc(q, "num_pruned_node") ELSE q
        t1 == SetMask(t, csymp, t[csymp].prune_mask \cup {prune_up_chain})
        target == IF is_relative(t[csymp].target)
                  THEN join_path(src_dir_pt_s, t[csymp].target)
                  ELSE t[csymp].target
        target_c == canonical(fsys, target)
    IN  prune_prop_symlink_m(prune_mark_up_chain(t1, q1, target_c.path, opt), opt, q1, t1,
                             target_c)

\* a prune_prop_reg() that takes every regular file for an exact match
prune_prop_reg_any(t, q, a_regp, s_par_pt_s, in_prune, opt) ==
    LET mask == t[a_regp].prune_mask
        t2 == SetMask(t, a_regp, mask \cup {prune_all_below})
        m2 == prune_mark_up_chain(t2, Inc(q, "num_pruned_node"), s_par_pt_s, opt)
    IN  [tree |-> m2.tree,
         q |-> IF m2.ec # "ok" THEN Inc(m2.q, "num_prune_err") ELSE m2.q]

\* prune_prop_reg(): [tree, q]
prune_prop_reg(t, q, a_regp, s_par_pt_s, in_prune, opt) ==
    LET mask == t[a_regp].prune_mask
        q1 == IF mask = {} THEN Inc(q, "num_pruned_node") ELSE q
        m1 == prune_mark_up_chain(t, q1, s_par_pt_s, opt)
        t2 == SetMask(t, a_regp, mask \cup {prune_all_below})
        m2 == prune_mark_up_chain(t2, Inc(q, "num_pruned_node"), s_par_pt_s, opt)
    IN  IF in_prune
        THEN IF prune_all_below \in mask THEN [tree |-> t, q |-> q1]
             ELSE IF prune_up_chain \in mask
             THEN [tree |-> SetMask(t, a_regp,
                                    (mask \ {prune_up_chain}) \cup {prune_all_below}),
                   q |-> q1]
             ELSE IF m1.ec # "ok"
             THEN [tree |-> m1.tree, q |-> Inc(m1.q, "num_prune_err")]
             ELSE [tree |-> SetMask(m1.tree, a_regp, mask \cup {prune_all_below}),
                   q |-> m1.q]
        ELSE IF prune_exact \in mask
        THEN [tree |-> m2.tree,
              q |-> IF m2.ec # "ok" THEN Inc(m2.q, "num_prune_err") ELSE m2.q]
        ELSE [tree |-> t, q |-> q]

\* a prune_prop_dir() that marks the directory it is called for when
\* in_prune is set, and returns without looking at the entries
prune_prop_dir_head_only(t, q, a_dirp, s_par_pt_s, in_prune, opt) ==
    LET at_src_rt == t[a_dirp].is_root
        src_dir_pt_s == IF at_src_rt THEN s_par_pt_s
                        ELSE Append(s_par_pt_s, t[a_dirp].filename)
        mask == t[a_dirp].prune_mask
    IN  [tree |-> IF in_prune THEN SetMask(t, a_dirp, mask \cup {prune_all_below})
                  ELSE t,
         q |-> q, ret |-> in_prune, in_prune |-> in_prune,
         src_dir_pt_s |-> src_dir_pt_s]

\* a prune_prop_dir() that leaves up_chain on a directory it marks all_below
prune_prop_dir_head_keep(t, q, a_dirp, s_par_pt_s, in_prune, opt) ==
    LET at_src_rt == t[a_dirp].is_root
        src_dir_pt_s == IF at_src_rt THEN s_par_pt_s
                        ELSE Append(s_par_pt_s, t[a_dirp].filename)
        mask == t[a_dirp].prune_mask
        q1 == IF mask = {} THEN Inc(q, "num_pruned_node") ELSE q
        m1 == prune_mark_up_chain(t, q1, s_par_pt_s, opt)
        t2 == SetMask(t, a_dirp, mask \cup {prune_all_below})
        q2 == Inc(q, "num_pruned_node")
        m2 == prune_mark_up_chain(t2, q2, s_par_pt_s, opt)
        out(tt, qq, r, ip) == [tree |-> tt, q |-> qq, ret |-> r, in_prune |-> ip,
                               src_dir_pt_s |-> src_dir_pt_s]
    IN  IF in_prune
        THEN IF prune_all_below \in mask THEN out(t, q, TRUE, TRUE)
             ELSE IF at_src_rt THEN out(t2, q1, FALSE, TRUE)
             ELSE IF prune_up_chain \in mask
             THEN out(SetMask(t, a_dirp, mask \cup {prune_all_below}), q1, FALSE, TRUE)
             ELSE IF m1.ec # "ok"
             THEN out(m1.tree, Inc(m1.q, "num_prune_err"), TRUE, TRUE)
             ELSE out(SetMask(m1.tree, a_dirp, mask \cup {prune_all_below}),
                      m1.q, FALSE, TRUE)
        ELSE IF prune_exact \in mask
        THEN IF at_src_rt THEN out(t2, q2, FALSE, TRUE)
             ELSE IF m2.ec # "ok"
             THEN out(m2.tree, Inc(m2.q, "num_prune_err"), TRUE, TRUE)
             ELSE out(m2.tree, m2.q, FALSE, TRUE)
        ELSE out(t, q, FALSE, FALSE)

\* prune_prop_dir() up to its loop: [tree, q, ret, in_prune, src_dir_pt_s];
\* ret tells that the function returned before the loop
prune_prop_dir_head(t, q, a_dirp, s_par_pt_s, in_prune, opt) ==
    LET at_src_rt == t[a_dirp].is_root
        src_dir_pt_s == IF at_src_rt THEN s_par_pt_s
                        ELSE Append(s_par_pt_s, t[a_dirp].filename)
        mask == t[a_dirp].prune_mask
        q1 == IF mask = {} THEN Inc(q, "num_pruned_node") ELSE q
        m1 == prune_mark_up_chain(t, q1, s_par_pt_s, opt)
        t2 == SetMask(t, a_dirp, mask \cup {prune_all_below})
        q2 == Inc(q, "num_pruned_node")
        m2 == prune_mark_up_chain(t2, q2, s_par_pt_s, opt)
        out(tt, qq, r, ip) == [tree |-> tt, q |-> qq, ret |-> r, in_prune |-> ip,
                               src_dir_pt_s |-> src_dir_pt_s]
    IN  IF in_prune
        THEN IF prune_all_below \in mask THEN out(t, q, TRUE, TRUE)
             ELSE IF at_src_rt THEN out(t2, q1, FALSE, TRUE)
             ELSE IF prune_up_chain \in mask
             THEN out(SetMask(t, a_dirp, (mask \ {prune_up_chain}) \cup {prune_all_below}),
                      q1, FALSE, TRUE)
             ELSE IF m1.ec # "ok"
             THEN out(m1.tree, Inc(m1.q, "num_prune_err"), TRUE, TRUE)
             ELSE out(SetMask(m1.tree, a_dirp, mask \cup {prune_all_below}),
                      m1.q, FALSE, TRUE)
        ELSE IF prune_exact \in mask
        THEN IF at_src_rt THEN out(t2, q2, FALSE, TRUE)
             ELSE IF m2.ec # "ok"
             THEN out(m2.tree, Inc(m2.q, "num_prune_err"), TRUE, TRUE)
             ELSE out(m2.tree, m2.q, FALSE, TRUE)
        ELSE out(t, q, FALSE, FALSE)

\* a call of prune_prop_dir() at its loop, about to look at child k
prune_frame(a_dirp, h) ==
    [fn |-> "prune_prop_dir", dirp |-> a_dirp, src_dir_pt_s |-> h.src_dir_pt_s,
     in_prune |-> h.in_prune, k |-> 0, post |-> "none"]

\* a loop of prune_prop_dir() that does not pass over a child directory
\* already marked all_below
prune_child_again(fsys, fr, t, q, opt) ==
    LET subd == Append(fr.dirp, fr.k)
        mask0 == t[subd].prune_mask
        t0 == IF fr.in_prune /\ prune_up_chain \in mask0
              THEN SetMask(t, subd, mask0 \ {prune_up_chain}) ELSE t
        kind == t[subd].kind
        out(tt, qq) == [tree |-> tt, q |-> qq, post |-> "none", call |-> NoPruneCall]
        y1 == prune_prop_symlink(fsys, t0, q, subd, fr.src_dir_pt_s, opt)
        te == SetMask(t0, subd, t0[subd].prune_mask \cup {prune_up_chain})
        y2 == prune_prop_symlink(fsys, te, q, subd, fr.src_dir_pt_s, opt)
        m == prune_mark_up_chain(y2.tree, y2.q, fr.src_dir_pt_s, opt)
        r == prune_prop_reg(t0, q, subd, fr.src_dir_pt_s, fr.in_prune, opt)
    IN  IF prune_all_below \in mask0 /\ kind # "directory" THEN out(t, q)
        ELSE IF kind = "directory"
        THEN [tree |-> t0, q |-> q, post |-> "none",
              call |-> [dirp |-> subd, s_par_pt_s |-> fr.src_dir_pt_s,
                        in_prune |-> fr.in_prune]]
        ELSE IF kind = "symlink"
        THEN IF fr.in_prune
             THEN [tree |-> y1.tree, q |-> y1.q, post |-> "none", call |-> y1.call]
             ELSE IF prune_exact \in mask0
             THEN IF y2.call # NoPruneCall
                  THEN [tree |-> y2.tree, q |-> y2.q, post |-> "mark_up",
                        call |-> y2.call]
                  ELSE IF y2.ret THEN out(m.tree, m.q)
                  ELSE out(y2.tree, y2.q)
             ELSE out(t0, q)
        ELSE IF kind = "regular" THEN out(r.tree, r.q)
        ELSE IF fr.in_prune
        THEN out(SetMask(t0, subd, t0[subd].prune_mask \cup {prune_all_below}),
                 IF t0[subd].prune_mask = {} THEN Inc(q, "num_pruned_node") ELSE q)
        ELSE out(t0, q)

\* one iteration of the loop of prune_prop_dir() in the call with frame fr,
\* up to a nested call of prune_prop_dir(): [tree, q, post, call];
\* post = "mark_up" when line 3135 is still to run after the nested call
prune_child(fsys, fr, t, q, opt) ==
    LET subd == Append(fr.dirp, fr.k)
        mask0 == t[subd].prune_mask
        t0 == IF fr.in_prune /\ prune_up_chain \in mask0
              THEN SetMask(t, subd, mask0 \ {prune_up_chain}) ELSE t
        kind == t[subd].kind
        out(tt, qq) == [tree |-> tt, q |-> qq, post |-> "none", call |-> NoPruneCall]
        y1 == prune_prop_symlink(fsys, t0, q, subd, fr.src_dir_pt_s, opt)
        te == SetMask(t0, subd, t0[subd].prune_mask \cup {prune_up_chain})
        y2 == prune_prop_symlink(fsys, te, q, subd, fr.src_dir_pt_s, opt)
        m == prune_mark_up_chain(y2.tree, y2.q, fr.src_dir_pt_s, opt)
        r == prune_prop_reg(t0, q, subd, fr.src_dir_pt_s, fr.in_prune, opt)
    IN  IF prune_all_below \in mask0 THEN out(t, q)
        ELSE IF kind = "directory"
        THEN [tree |-> t0, q |-> q, post |-> "none",
              call |-> [dirp |-> subd, s_par_pt_s |-> fr.src_dir_pt_s,
                        in_prune |-> fr.in_prune]]
        ELSE IF kind = "symlink"
        THEN IF fr.in_prune
             THEN [tree |-> y1.tree, q |-> y1.q, post |-> "none", call |-> y1.call]
             ELSE IF prune_exact \in mask0
             THEN IF y2.call # NoPruneCall
                  THEN [tree |-> y2.tree, q |-> y2.q, post |-> "mark_up",
                        call |-> y2.call]
                  ELSE IF y2.ret THEN out(m.tree, m.q)
                  ELSE out(y2.tree, y2.q)
             ELSE out(t0, q)
        ELSE IF kind = "regular" THEN out(r.tree, r.q)
        ELSE IF fr.in_prune
        THEN out(SetMask(t0, subd, t0[subd].prune_mask \cup {prune_all_below}),
                 IF t0[subd].prune_mask = {} THEN Inc(q, "num_pruned_node") ELSE q)
        ELSE out(t0, q)

\* ------------------------------------------------------------------------
\* The last pass: unrolling the tree into the destination
\* ------------------------------------------------------------------------
transform_src_pt2dst(src_pt_s, opt) ==
    IF str_size(src_pt_s) < str_size(opt.source_pt) THEN <<>>
    ELSE opt.destination_pt \o drop_chars(src_pt_s, str_size(opt.source_pt))

\* xfr_dev_inmem2file(): [res, dst, q]
xfr_dev_inmem2file(dst, q, idev, destin_file, opt) ==
    LET r == mknod(dst, destin_file, IF idev.is_block_dev THEN "block" ELSE "character",
                   idev.from, opt.euid_root)
    IN  [res |-> r.ec, dst |-> r.dst,
         q |-> IF r.ec = "EACCES" THEN Inc(q, "num_mknod_d_eacces")
               ELSE IF r.ec = "EPERM" THEN Inc(q, "num_mknod_d_eperm")
               ELSE IF r.ec # "ok" THEN Inc(q, "num_mknod_d_fail")
               ELSE IF idev.is_block_dev THEN Inc(q, "num_block")
               ELSE Inc(q, "num_char")]

\* unroll_cache_not_dir(): [ec, dst, q]
unroll_cache_not_dir(fsys, dst, q, s_pt_s, d_pt_s, a_nod, opt) ==
    LET y == create_symlink(dst, a_nod.target, d_pt_s, a_nod.from)
        v == xfr_dev_inmem2file(dst, q, a_nod, d_pt_s, opt)
        m == xfr_vec2file(dst, q, a_nod.contents, d_pt_s, a_nod.from)
        f == xfr_reg_file2file(fsys, dst, q, s_pt_s, d_pt_s, opt.reglen, a_nod.from)
    IN  IF a_nod.kind = "symlink"
        THEN [ec |-> y.ec, dst |-> y.dst,
              q |-> IF y.ec # "ok" THEN Inc(q, "num_error")
                    ELSE Inc(q, "num_sym_d_success")]
        ELSE IF a_nod.kind = "device" THEN [ec |-> v.res, dst |-> v.dst, q |-> v.q]
        ELSE IF a_nod.kind = "regular"
        THEN IF a_nod.always_use_contents \/ opt.cache_op_num > 1
             THEN [ec |-> m.res, dst |-> m.dst, q |-> m.q]
             ELSE [ec |-> f.res, dst |-> f.dst, q |-> f.q]
        ELSE [ec |-> "ok", dst |-> dst, q |-> q]

\* unroll_cache_is_dir(): [ec, dst, q]
unroll_cache_is_dir(dst, q, dst_pt_s, dirp_from, opt) ==
    LET r == create_directory(dst, dst_pt_s, dirp_from)
    IN  [ec |-> r.ec, dst |-> r.dst,
         q |-> IF r.made THEN Inc(q, "num_dir_d_success")
               ELSE IF r.ec # "ok" THEN Inc(q, "num_dir_d_fail")
               ELSE IF dst_pt_s # opt.destination_pt THEN Inc(q, "num_dir_d_exists")
               ELSE q]

NoFrame ==
    [fn |-> "none"]

\* the part of unroll_cache() that follows the evaluation of n and d
unroll_cache_n(n, d, dst, q, t, a_nod, opt, src_dir_pt_s, dst_dir_pt_s) ==
    IF opt.prune_given /\ t[a_nod].prune_mask = {}
    THEN [ec |-> "ok", dst |-> dst, q |-> q, frame |-> NoFrame]
    ELSE IF t[a_nod].kind # "directory"
    THEN [ec |-> n.ec, dst |-> n.dst, q |-> n.q, frame |-> NoFrame]
    ELSE [ec |-> d.ec, dst |-> d.dst, q |-> d.q,
          frame |-> IF d.ec # "ok" THEN NoFrame
                    ELSE [fn |-> "unroll_cache", nod |-> a_nod,
                          src_dir_pt_s |-> src_dir_pt_s,
                          dst_dir_pt_s |-> dst_dir_pt_s, k |-> 0, ec |-> "ok"]]

\* unroll_cache() up to its loop: [ec, dst, q, frame]; frame is NoFrame when
\* the function returned ec before the loop
unroll_cache(fsys, dst, q, t, a_nod, s_par_pt_s, opt) ==
    LET src_dir_pt_s == Append(s_par_pt_s, t[a_nod].filename)
        dst_dir_pt_s == transform_src_pt2dst(src_dir_pt_s, opt)
    IN  unroll_cache_n(unroll_cache_not_dir(fsys, dst, q, src_dir_pt_s, dst_dir_pt_s,
                                            t[a_nod], opt),
                       unroll_cache_is_dir(dst, q, dst_dir_pt_s, t[a_nod].from, opt),
                       dst, q, t, a_nod, opt, src_dir_pt_s, dst_dir_pt_s)

\* ------------------------------------------------------------------------
\* Command lines.  A command line is the record
\* [fix, cache, prune, exclude, excl_fn, deref, max_depth, reglen, hidden,
\*  stats, dst_exists, euid_root]: the fixture that is the source, the number
\* of --cache options, the arguments of the repeatable options, whether
\* --hidden and --statistics are given, and whether DPATH existed before the
\* run and whether the caller is root.
\* ------------------------------------------------------------------------
SrcRoot ==
    <<"s">>

DstRoot ==
    <<"d">>

PruneCand(fix) ==
    CASE fix = "spine" -> { <<"s">>, <<"s", "a">>, <<"s", "a", "b">>,
                            <<"s", "a", "b", "c", "leaf">>, <<"s", "a", "o">>,
                            <<"s", "m">> }
      [] fix = "sysfs" -> { <<"s", "dev", "sda">>, <<"s", "dev", "lr">>,
                            <<"s", "dev", "out">>, <<"s", "block", "sda">>,
                            <<"s", "dev">>, <<"s">> }
      [] fix = "links" -> { <<"s", "d", "dg">>, <<"s", "d", "e", "back">>,
                            <<"s", "d", "e", "up">>, <<"s", "d", "e">>,
                            <<"s", ".h">>, <<"s", "d", "e", "f">>, <<"s">> }

ExclCand(fix) ==
    CASE fix = "spine" -> { <<"s", "a">>, <<"s", "a", "b">>, <<"s", "a", "o", "big">> }
      [] fix = "sysfs" -> { <<"s", "block", "sda">>, <<"s", "block", "sda", "q">>,
                            <<"s", "block", "sda", "size">>, <<"s", "dev", "sda">> }
      [] fix = "links" -> { <<"s", "d", "e">>, <<"s", "d", "dg">>, <<"s", "d", "e", "f">> }

ExclFnCand(fix) ==
    CASE fix = "spine" -> { "o", "leaf", "dv" }
      [] fix = "sysfs" -> { "sda", "size", "q" }
      [] fix = "links" -> { "e", "back", "f" }

DerefCand(fix) ==
    CASE fix = "spine" -> { }
      [] fix = "sysfs" -> { <<"s", "dev", "sda">>, <<"s", "dev", "lr">>,
                            <<"s", "dev", "out">> }
      [] fix = "links" -> { <<"s", ".h">>, <<"s", "d", "e", "back">>,
                            <<"s", "d", "e", "up">>, <<"s", "d", "dg">> }

\* --reglen= values other than the default
RegLens ==
    {0, 1, 2000}

SubsetsUpTo(S, n) ==
    {T \in SUBSET S : T # {} /\ Cardinality(T) <= n}

DefaultCl(fix, cache) ==
    [fix |-> fix, cache |-> cache, prune |-> {}, exclude |-> {}, excl_fn |-> {},
     deref |-> {}, max_depth |-> 0, reglen |-> def_reglen, hidden |-> FALSE,
     stats |-> FALSE, dst_exists |-> FALSE, euid_root |-> TRUE]

\* one option given on the command line: <<field, value>>
PlainOptions(fix) ==
    {<<"exclude", {p}>> : p \in ExclCand(fix)}
    \cup {<<"excl_fn", {n}>> : n \in ExclFnCand(fix)}
    \cup {<<"deref", T>> : T \in SubsetsUpTo(DerefCand(fix), MaxDeref)}
    \cup {<<"max_depth", d>> : d \in 1..MaxDepthOpt}
    \cup {<<"reglen", r>> : r \in RegLens}
    \cup {<<"hidden", TRUE>>, <<"dst_exists", TRUE>>, <<"euid_root", FALSE>>}

PruneOptions(fix) ==
    {<<"prune", T>> : T \in SubsetsUpTo(PruneCand(fix), MaxPrune)}

WithOptions(c, F) ==
    [k \in DOMAIN c |-> IF \E g \in F : g[1] = k
                        THEN (CHOOSE g \in F : g[1] = k)[2]
                        ELSE c[k]]

\* no option or one option, with no, one or two --cache
OneOption(fix) ==
    {WithOptions(DefaultCl(fix, cache), F) :
       cache \in {0, 1, 2},
       F \in {{}} \cup {{f} : f \in PlainOptions(fix)}
                  \cup {{f} : f \in {h \in PruneOptions(fix) : Cardinality(h[2]) = 1}}}

\* several --prune= arguments
ManyPrune(fix) ==
    {WithOptions(DefaultCl(fix, 1), {f}) :
       f \in {h \in PruneOptions(fix) : Cardinality(h[2]) > 1}}

\* --dereference= arguments together with one other option
DerefAnd(fix) ==
    {WithOptions(DefaultCl(fix, cache), {f, g}) :
       cache \in {0, 1},
       f \in {h \in PlainOptions(fix) : h[1] = "deref"},
       g \in {h \in PlainOptions(fix) : h[1] # "deref"}}

\* one --prune= argument together with one other option
PruneAnd(fix) ==
    {WithOptions(DefaultCl(fix, 1), {f, g}) :
       f \in {h \in PruneOptions(fix) : Cardinality(h[2]) = 1},
       g \in {h \in PlainOptions(fix) :
                h[1] \in {"deref", "exclude", "excl_fn", "max_depth", "hidden"}}}

CommandLines ==
    UNION {OneOption(fix) \cup ManyPrune(fix) \cup DerefAnd(fix) \cup PruneAnd(fix) :
           fix \in FixtureIds}

\* ------------------------------------------------------------------------
\* main(): the options after parse_cmd_line() and the checks of main()
\* ------------------------------------------------------------------------
main_prune_v(fsys, args) ==
    sort_unique({ IF symlink_status(fsys, p) = "symlink" THEN p
                  ELSE canonical(fsys, p).path :
                  p \in {a \in args : symlink_status(fsys, a) = "symlink"
                                      \/ canonical(fsys, a).ok} })

main_glob_exclude_v(fsys, args, source_pt) ==
    sort_unique({ p \in args : canonical(fsys, p).ok
                               /\ path_contains_canon(source_pt, canonical(fsys, p).path) })

main_deref_v(fsys, args, source_pt) ==
    sort_unique({ p \in args : path_contains_canon(source_pt, p) /\ p # source_pt
                               /\ symlink_status(fsys, p) = "symlink" })

\* struct opts_t as main() leaves it
main_opts(c) ==
    [source_pt |-> SrcRoot, destination_pt |-> DstRoot,
     cache_op_num |-> IF c.prune # {} /\ c.cache = 0 THEN 1 ELSE c.cache,
     prune_given |-> c.prune # {},
     max_depth |-> IF c.max_depth > 0 THEN c.max_depth - 1 ELSE c.max_depth,
     max_depth_active |-> c.max_depth > 0,
     reglen |-> c.reglen, clone_hidden |-> c.hidden, no_xdev |-> FALSE,
     destin_all_new |-> ~c.dst_exists, euid_root |-> c.euid_root,
     want_stats |-> IF c.stats THEN 1 ELSE 0,
     excl_fn_v |-> sort_unique({<<n>> : n \in c.excl_fn})]

\* struct mut_opts_t as main() leaves it
main_mut_opts(c) ==
    [deref_v |-> main_deref_v(Fixture(c.fix), c.deref, SrcRoot),
     prune_v |-> main_prune_v(Fixture(c.fix), c.prune),
     glob_exclude_v |-> main_glob_exclude_v(Fixture(c.fix), c.exclude, SrcRoot),
     prune_take_all |-> FALSE, clone_work_subseq |-> FALSE,
     cache_src_subseq |-> FALSE,
     starting_fs_inst |-> Fixture(c.fix)[SrcRoot].dev]

\* ------------------------------------------------------------------------
\* State
\* ------------------------------------------------------------------------
VARIABLES
    cl,      \* the command line of the run
    op,      \* struct opts_t
    mutp,    \* struct mut_opts_t without its statistics
    q,       \* struct stats_t
    tree,    \* the in-memory tree, empty until main() makes its root
    dest,    \* the destination file system
    stack,   \* the active calls, innermost last
    pc,      \* where main(), do_clone() or do_cache() is
    ec,      \* the error_code that do_clone() or do_cache() holds
    res      \* the exit status of main()

vars ==
    <<cl, op, mutp, q, tree, dest, stack, pc, ec, res>>

FS ==
    Fixture(cl.fix)

Top ==
    stack[Len(stack)]

Pop(st) ==
    SubSeq(st, 1, Len(st) - 1)

\* the destination before the run: "/" and DPATH
EmptyDest ==
    MkFS({ <<<<>>, DNode("directory", 0, NoData, <<>>, NoPath)>>,
           <<DstRoot, DNode("directory", 0, NoData, <<>>, NoPath)>> })

\* the end of main(): without --statistics a truncated scan makes the exit
\* status 1
main_res(r, qq) ==
    IF op.want_stats = 0 /\ qq["num_scan_failed"] > 0 THEN 1 ELSE r

Init ==
    /\ cl \in CommandLines
    /\ op = main_opts(cl)
    /\ mutp = main_mut_opts(cl)
    /\ q = [n \in StatNames |-> 0]
    /\ tree = <<>>
    /\ dest = EmptyDest
    /\ stack = <<>>
    /\ pc = "main"
    /\ ec = "ok"
    /\ res = 0

\* a call of clone_work(src_pt, dst_pt) at its for loop
clone_work_frame(src_pt, dst_pt, mut) ==
    [fn |-> "clone_work", src_pt |-> src_pt, dst_pt |-> dst_pt,
     lv |-> <<>>, pend |-> src_pt,
     possible_exclude |-> mut.glob_exclude_v # <<>>,
     possible_deref |-> mut.deref_v # <<>>]

\* main() calls do_clone(), which calls clone_work(source, destination)
DoClone ==
    /\ pc = "main"
    /\ op.cache_op_num = 0
    /\ pc' = "clone"
    /\ q' = Inc(q, "num_node")
    /\ mutp' = [mutp EXCEPT !.clone_work_subseq = TRUE]
    /\ stack' = <<clone_work_frame(op.source_pt, op.destination_pt, mutp)>>
    /\ UNCHANGED <<cl, op, tree, dest, ec, res>>

\* the part of CloneWorkEntry() that follows the evaluation of r
CloneWorkEntry_r(r, name, lv, pt) ==
    LET fr == [Top EXCEPT !.lv = itr_take(lv, name),
                          !.pend = IF FS[pt].kind = "directory" /\ ~r.disable
                                   THEN pt ELSE NoPath,
                          !.possible_exclude = r.possible_exclude,
                          !.possible_deref = r.possible_deref]
    IN  /\ dest' = r.dst
        /\ q' = r.q
        /\ mutp' = r.mut
        /\ stack' = IF r.call = NoCall
                    THEN Append(Pop(stack), fr)
                    ELSE Append(Append(Pop(stack), fr),
                                clone_work_frame(r.call.src_pt,
                                                 r.call.dst_pt, r.mut))

\* one iteration of the for loop of the innermost clone_work()
CloneWorkEntry ==
    /\ pc = "clone"
    /\ stack # <<>>
    /\ LET lv == itr_levels(FS, Top)
       IN  /\ lv # <<>>
           /\ \E name \in lv[Len(lv)].rem :
                LET pt == Append(lv[Len(lv)].dir, name)
                IN  CloneWorkEntry_r(clone_entry(FS, Top, pt, Len(lv) - 1, dest, q, mutp, op), name,
                                     lv, pt)
    /\ UNCHANGED <<cl, op, tree, pc, ec, res>>

\* the iterator of the innermost clone_work() is at its end: the call
\* returns; the outermost call returns to do_clone() and main()
CloneWorkReturn ==
    /\ pc = "clone"
    /\ stack # <<>>
    /\ itr_levels(FS, Top) = <<>>
    /\ stack' = Pop(stack)
    /\ pc' = IF Len(stack) = 1 THEN "done" ELSE pc
    /\ UNCHANGED <<cl, op, mutp, q, tree, dest, ec, res>>

\* a call of cache_src(start_dirp, osrc_pt) at its for loop
cache_src_frame(start_dirp, osrc_pt, mut, possible_prune) ==
    [fn |-> "cache_src", osrc_pt |-> osrc_pt, start_dirp |-> start_dirp,
     l_odirp |-> start_dirp, prev_odirp |-> NullP, saved_odirp |-> NullP,
     prev_depth |-> -1, prev_dir_ind |-> -1, lv |-> <<>>, pend |-> osrc_pt,
     possible_exclude |-> ~mut.cache_src_subseq /\ mut.glob_exclude_v # <<>>,
     possible_deref |-> ~mut.cache_src_subseq /\ mut.deref_v # <<>>,
     possible_prune |-> possible_prune]

\* main() makes the root node and calls do_cache(), which calls
\* cache_src(root, source): the first call looks for the source root in
\* prune_v
DoCache ==
    /\ pc = "main"
    /\ op.cache_op_num > 0
    /\ LET s_inm_rt == [INode("directory", filename(op.source_pt),
                              FS[op.source_pt].dev, op.source_pt) EXCEPT
                          !.is_root = TRUE, !.depth = -1,
                          !.par_pt_s = parent_path(op.source_pt),
                          !.prune_mask = IF op.prune_given THEN {prune_up_chain}
                                         ELSE {}]
           rt == find_in_sorted_vec(mutp.prune_v, op.source_pt, TRUE)
           possible_prune == mutp.prune_v # <<>>
       IN  /\ tree' = (<<>> :> s_inm_rt)
           /\ q' = IF possible_prune /\ rt.first
                   THEN Inc([q EXCEPT !["num_node"] = 1], "num_prune_exact")
                   ELSE [q EXCEPT !["num_node"] = 1]
           /\ mutp' = IF possible_prune
                      THEN [mutp EXCEPT !.cache_src_subseq = TRUE,
                                        !.prune_v = rt.vec,
                                        !.prune_take_all = rt.first]
                      ELSE [mutp EXCEPT !.cache_src_subseq = TRUE]
           /\ stack' = <<cache_src_frame(<<>>, op.source_pt, mutp,
                                         IF possible_prune THEN rt.second ELSE FALSE)>>
    /\ pc' = "cache"
    /\ UNCHANGED <<cl, op, dest, ec, res>>

\* cache_src() returns err to its caller: symlink_cache_src() in the call
\* below it on the stack, which puts l_odirp back only when err is clear,
\* or do_cache()
cache_src_return(st, err) ==
    IF Len(st) = 1 THEN <<>>
    ELSE LET caller == st[Len(st) - 1]
         IN  Append(SubSeq(st, 1, Len(st) - 2),
                    IF err = "ok" THEN [caller EXCEPT !.l_odirp = caller.saved_odirp]
                    ELSE caller)

\* the part of CacheSrcEntry() that follows the evaluation of r
CacheSrcEntry_r(r, name, lv, pt) ==
    LET fr == [r.fr EXCEPT !.lv = itr_take(lv, name),
                           !.pend = IF FS[pt].kind = "directory" /\ ~r.disable
                                    THEN pt ELSE NoPath]
    IN  /\ tree' = r.tree
        /\ q' = r.q
        /\ mutp' = r.mut
        /\ stack' = IF r.ret # "none" THEN cache_src_return(stack, r.ret)
                    ELSE IF r.call = NoCacheCall
                    THEN Append(Pop(stack), fr)
                    ELSE Append(Append(Pop(stack), fr),
                                cache_src_frame(r.call.start_dirp,
                                                r.call.osrc_pt, r.mut, FALSE))
        /\ pc' = IF r.ret # "none" /\ Len(stack) = 1 THEN "pass2" ELSE pc
        /\ ec' = IF r.ret # "none" /\ Len(stack) = 1 THEN r.ret ELSE ec

\* one iteration of the for loop of the innermost cache_src()
CacheSrcEntry ==
    /\ pc = "cache"
    /\ stack # <<>>
    /\ LET lv == itr_levels(FS, Top)
       IN  /\ lv # <<>>
           /\ \E name \in lv[Len(lv)].rem :
                LET pt == Append(lv[Len(lv)].dir, name)
                IN  CacheSrcEntry_r(cache_entry(FS, Top, pt, Len(lv) - 1, tree, q, mutp, op), name,
                                    lv, pt)
    /\ UNCHANGED <<cl, op, dest, res>>

\* the iterator of the innermost cache_src() is at its end: the call
\* returns a clear error_code
CacheSrcReturn ==
    /\ pc = "cache"
    /\ stack # <<>>
    /\ itr_levels(FS, Top) = <<>>
    /\ stack' = cache_src_return(stack, "ok")
    /\ pc' = IF Len(stack) = 1 THEN "pass2" ELSE pc
    /\ UNCHANGED <<cl, op, mutp, q, tree, dest, ec, res>>

\* the part of PrunePass() that follows the evaluation of h
PrunePass_h(h) ==
    IF op.prune_given /\ q["num_prune_exact"] > 0
    THEN /\ tree' = h.tree
         /\ q' = h.q
         /\ stack' = IF h.ret THEN <<>> ELSE <<prune_frame(<<>>, h)>>
         /\ pc' = IF h.ret THEN "pass3" ELSE "prune"
         /\ UNCHANGED res
    ELSE /\ pc' = IF op.prune_given THEN "done" ELSE "pass3"
         /\ res' = IF op.prune_given
                   THEN main_res(IF ec # "ok" THEN 1 ELSE res, q)
                   ELSE res
         /\ UNCHANGED <<tree, q, stack>>

\* do_cache() after pass 1: with --prune= it calls prune_prop_dir() on the
\* root when pass 1 counted an exact match, and skips the destination when
\* it counted none
PrunePass ==
    /\ pc = "pass2"
    /\ PrunePass_h(prune_prop_dir_head(tree, q, <<>>, op.source_pt,
                                       mutp.prune_take_all, op))
    /\ UNCHANGED <<cl, op, mutp, dest, ec>>

\* the part of PrunePropChild() that follows the evaluation of h
PrunePropChild_h(h, r) ==
    LET fr == [Top EXCEPT !.k = @ + 1, !.post = r.post]
        m == prune_mark_up_chain(h.tree, h.q, Top.src_dir_pt_s, op)
    IN  IF r.call = NoPruneCall
        THEN /\ tree' = r.tree
             /\ q' = r.q
             /\ stack' = Append(Pop(stack), fr)
        ELSE IF h.ret
        THEN \* the nested call returned at once
             /\ tree' = IF r.post = "mark_up" THEN m.tree ELSE h.tree
             /\ q' = IF r.post = "mark_up" THEN m.q ELSE h.q
             /\ stack' = Append(Pop(stack), [fr EXCEPT !.post = "none"])
        ELSE /\ tree' = h.tree
             /\ q' = h.q
             /\ stack' = Append(Append(Pop(stack), fr), prune_frame(r.call.dirp, h))

\* the part of PrunePropChild() that follows the evaluation of r
PrunePropChild_r(r) ==
    PrunePropChild_h(prune_prop_dir_head(r.tree, r.q, r.call.dirp, r.call.s_par_pt_s,
                                         r.call.in_prune, op), r)

\* one iteration of the loop of the innermost prune_prop_dir()
PrunePropChild ==
    /\ pc = "prune"
    /\ stack # <<>>
    /\ Top.k < tree[Top.dirp].nsub
    /\ PrunePropChild_r(prune_child(FS, Top, tree, q, op))
    /\ UNCHANGED <<cl, op, mutp, dest, pc, ec, res>>

\* the loop of the innermost prune_prop_dir() is over: the call returns;
\* a caller that came through prune_prop_symlink() for an exact symlink
\* goes on to mark up the chain of the directory holding the symlink
PrunePropReturn ==
    /\ pc = "prune"
    /\ stack # <<>>
    /\ Top.k >= tree[Top.dirp].nsub
    /\ IF Len(stack) = 1
       THEN /\ stack' = <<>>
            /\ pc' = "pass3"
            /\ UNCHANGED <<tree, q>>
       ELSE LET caller == stack[Len(stack) - 1]
                m == prune_mark_up_chain(tree, q, caller.src_dir_pt_s, op)
            IN  /\ stack' = Append(SubSeq(stack, 1, Len(stack) - 2),
                                   [caller EXCEPT !.post = "none"])
                /\ tree' = IF caller.post = "mark_up" THEN m.tree ELSE tree
                /\ q' = IF caller.post = "mark_up" THEN m.q ELSE q
                /\ pc' = pc
    /\ UNCHANGED <<cl, op, mutp, dest, ec, res>>

\* the part of UnrollPass() that follows the evaluation of u
UnrollPass_u(u) ==
    /\ dest' = u.dst
    /\ q' = u.q
    /\ ec' = u.ec
    /\ stack' = IF u.frame = NoFrame THEN <<>> ELSE <<u.frame>>
    /\ pc' = IF u.frame = NoFrame THEN "done" ELSE "unroll"
    /\ res' = IF u.frame # NoFrame THEN res
              ELSE main_res(IF u.ec # "ok" THEN 1 ELSE res, u.q)

\* do_cache() calls unroll_cache() on the root node
UnrollPass ==
    /\ pc = "pass3"
    /\ UnrollPass_u(unroll_cache(FS, dest, q, tree, <<>>, parent_path(op.source_pt), op))
    /\ UNCHANGED <<cl, op, mutp, tree>>

\* one iteration of the loop of the innermost unroll_cache()
UnrollChild ==
    /\ pc = "unroll"
    /\ stack # <<>>
    /\ Top.ec = "ok"
    /\ Top.k < tree[Top.nod].nsub
    /\ LET subd == Append(Top.nod, Top.k)
           fr == [Top EXCEPT !.k = @ + 1]
           u == unroll_cache(FS, dest, q, tree, subd, Top.src_dir_pt_s, op)
           n == unroll_cache_not_dir(FS, dest, q,
                                     Append(Top.src_dir_pt_s, tree[subd].filename),
                                     Append(Top.dst_dir_pt_s, tree[subd].filename),
                                     tree[subd], op)
       IN  IF op.prune_given /\ tree[subd].prune_mask = {}
           THEN /\ stack' = Append(Pop(stack), fr)
                /\ UNCHANGED <<dest, q>>
           ELSE IF tree[subd].kind = "directory"
           THEN /\ dest' = u.dst
                /\ q' = u.q
                /\ stack' = IF u.frame = NoFrame
                            THEN Append(Pop(stack), [fr EXCEPT !.ec = u.ec])
                            ELSE Append(Append(Pop(stack), fr), u.frame)
           ELSE /\ dest' = n.dst
                /\ q' = n.q
                /\ stack' = Append(Pop(stack), fr)
    /\ UNCHANGED <<cl, op, mutp, tree, pc, ec, res>>

\* the loop of the innermost unroll_cache() is over or was left by break:
\* the call returns its error_code, to the loop of its caller or to
\* do_cache() and main()
UnrollReturn ==
    /\ pc = "unroll"
    /\ stack # <<>>
    /\ Top.ec # "ok" \/ Top.k >= tree[Top.nod].nsub
    /\ IF Len(stack) = 1
       THEN /\ stack' = <<>>
            /\ pc' = "done"
            /\ ec' = Top.ec
            /\ res' = main_res(IF Top.ec # "ok" THEN 1 ELSE res, q)
       ELSE /\ stack' = Append(SubSeq(stack, 1, Len(stack) - 2),
                               [stack[Len(stack) - 1] EXCEPT !.ec = Top.ec])
            /\ UNCHANGED <<pc, ec, res>>
    /\ UNCHANGED <<cl, op, mutp, q, tree, dest>>

Next ==
    \/ DoClone
    \/ CloneWorkEntry
    \/ CloneWorkReturn
    \/ DoCache
    \/ CacheSrcEntry
    \/ CacheSrcReturn
    \/ PrunePass
    \/ PrunePropChild
    \/ PrunePropReturn
    \/ UnrollPass
    \/ UnrollChild
    \/ UnrollReturn

Spec ==
    Init /\ [][Next]_vars

\* ------------------------------------------------------------------------
\* Runs in which things fail.  DPATH may hold files that are in the way of
\* the run, and the directory iterator of a scan can fail: opendir(3) of
\* the directory that the constructor or increment() is about to enter
\* fails with an error other than EACCES (EMFILE when the open file limit
\* is low, ENOENT when the directory went away), the iterator becomes the
\* end iterator and the error is left in ecc.
\* ------------------------------------------------------------------------
\* What DPATH holds when it is there before the run: nothing, or a regular
\* file where the run wants a directory, or directories down to where the
\* run wants a regular file.
Obstacles(fix) ==
    LET File == DNode("regular", 1, NoData, <<>>, NoPath)
        Directory == DNode("directory", 0, NoData, <<>>, NoPath)
    IN  CASE fix = "sysfs" ->
               { {<<<<"d", "dev">>, File>>},
                 {<<<<"d", "block">>, Directory>>,
                  <<<<"d", "block", "sda">>, Directory>>,
                  <<<<"d", "block", "sda", "size">>, Directory>>} }
          [] fix = "links" -> { {<<<<"d", "d">>, File>>} }
          [] OTHER -> {}

DestBefore(c) ==
    {EmptyDest}
    \cup (IF c.dst_exists
          THEN {MkFS({<<p, EmptyDest[p]>> : p \in DOMAIN EmptyDest} \cup o) :
                  o \in Obstacles(c.fix)}
          ELSE {})

\* no option or one option, with or without --statistics; one symlink of
\* the third tree dereferenced; two symlinks dereferenced, the second met
\* in the scan the first gives rise to, with --hidden and --max-depth=1
ScanFailLines ==
    {[c EXCEPT !.stats = s] :
       c \in OneOption("sysfs") \cup OneOption("links")
              \cup {[DefaultCl("twins", cache) EXCEPT !.deref = {<<"s", "lnk">>}] :
                       cache \in {0, 1, 2}}
              \cup {[DefaultCl("links", cache) EXCEPT
                        !.deref = {<<"s", ".h">>, <<"s", "d", "e", "back">>},
                        !.hidden = TRUE, !.max_depth = 1] : cache \in {0, 1}},
       s \in BOOLEAN}

\* the files that cannot be read, with the default --reglen= and with
\* --reglen=0
ReadFailLines ==
    {[DefaultCl(fix, cache) EXCEPT !.reglen = r] :
       fix \in {"open EACCES", "open EPERM", "open ENOENT", "read EIO",
                "read EAGAIN", "read EINVAL"},
       cache \in {0, 1, 2}, r \in {def_reglen, 0}}

InitF ==
    /\ cl \in ScanFailLines \cup ReadFailLines
    /\ op = main_opts(cl)
    /\ mutp = main_mut_opts(cl)
    /\ q = [n \in StatNames |-> 0]
    /\ tree = <<>>
    /\ dest \in DestBefore(cl)
    /\ stack = <<>>
    /\ pc = "main"
    /\ ec = "ok"
    /\ res = 0

\* the iterator of the innermost clone_work() fails: the call counts
\* num_scan_failed and returns ecc; symlink_clone_work() hands the error of
\* a nested call on as serious and every calling clone_work() returns it at
\* once, up to do_clone() and main()
CloneWorkScanFail ==
    /\ pc = "clone"
    /\ stack # <<>>
    /\ Top.pend # NoPath
    /\ q' = Inc(q, "num_scan_failed")
    /\ stack' = <<>>
    /\ pc' = "done"
    /\ ec' = "EMFILE"
    /\ res' = 1
    /\ UNCHANGED <<cl, op, mutp, tree, dest>>

\* the iterator of the innermost cache_src() fails: the call counts
\* num_scan_failed and returns ecc, to symlink_cache_src() or to do_cache()
CacheSrcScanFail ==
    /\ pc = "cache"
    /\ stack # <<>>
    /\ Top.pend # NoPath
    /\ q' = Inc(q, "num_scan_failed")
    /\ stack' = cache_src_return(stack, "EMFILE")
    /\ pc' = IF Len(stack) = 1 THEN "pass2" ELSE pc
    /\ ec' = IF Len(stack) = 1 THEN "EMFILE" ELSE ec
    /\ UNCHANGED <<cl, op, mutp, tree, dest, res>>

NextF ==
    \/ Next
    \/ CloneWorkScanFail
    \/ CacheSrcScanFail

SpecF ==
    InitF /\ [][NextF]_vars

\* ------------------------------------------------------------------------
\* Runs with --prune= over symlinks that lead back into the pruned region;
\* pass 2 is one call of prune_prop_dir() in a single thread, so each of
\* its steps is taken as long as one is possible
\* ------------------------------------------------------------------------
PruneLines ==
    {c \in OneOption("links") \cup ManyPrune("links") : c.prune # {} \/ c.cache = 0}
    \cup {[DefaultCl("cross", cache) EXCEPT !.prune = P] :
            cache \in {0, 1},
            P \in {{}} \cup SubsetsUpTo({ <<"s">>, <<"s", "a">>, <<"s", "b">>,
                                          <<"s", "a", "to_b">>, <<"s", "b", "to_a">>,
                                          <<"s", "a", "f">> }, MaxPrune)}

InitP ==
    /\ cl \in PruneLines
    /\ op = main_opts(cl)
    /\ mutp = main_mut_opts(cl)
    /\ q = [n \in StatNames |-> 0]
    /\ tree = <<>>
    /\ dest = EmptyDest
    /\ stack = <<>>
    /\ pc = "main"
    /\ ec = "ok"
    /\ res = 0

\* weak fairness of the three steps of pass 2; for the loop body it is written
\* out, its enabling condition being the loop condition of prune_prop_dir()
SpecP ==
    /\ InitP /\ [][Next]_vars
    /\ WF_vars(PrunePass) /\ WF_vars(PrunePropReturn)
    /\ \/ []<>~(pc = "prune" /\ stack # <<>> /\ Top.k < tree[Top.dirp].nsub)
       \/ []<><<PrunePropChild>>_vars

\* ------------------------------------------------------------------------
\* Runs with up to three --dereference= arguments over symlinks that lead
\* back to a directory holding them; a scan is a loop in a single thread,
\* so each of its steps is taken as long as one is possible
\* ------------------------------------------------------------------------
DerefLines ==
    {c \in OneOption("links") : c.cache = 1}
    \cup {[DefaultCl("links", 0) EXCEPT !.deref = D, !.hidden = TRUE] :
            D \in {{}} \cup (SUBSET { <<"s", ".h">>, <<"s", "d", "e", "back">>,
                                      <<"s", "d", "e", "up">> } \ {{}})}

InitD ==
    /\ cl \in DerefLines
    /\ op = main_opts(cl)
    /\ mutp = main_mut_opts(cl)
    /\ q = [n \in StatNames |-> 0]
    /\ tree = <<>>
    /\ dest = EmptyDest
    /\ stack = <<>>
    /\ pc = "main"
    /\ ec = "ok"
    /\ res = 0

\* weak fairness of the steps of the direct scan; for the loop body it is
\* written out, its enabling condition being the loop condition of clone_work()
SpecD ==
    /\ InitD /\ [][Next]_vars
    /\ WF_vars(DoClone) /\ WF_vars(CloneWorkReturn)
    /\ \/ []<>~(pc = "clone" /\ stack # <<>> /\ itr_levels(FS, Top) # <<>>)
       \/ []<><<CloneWorkEntry>>_vars

\* ------------------------------------------------------------------------
\* One regular file transferred, step by step: by xfr_reg_file2file(), or,
\* in a run with --cache given twice, by xfr_reg_file2inmem() followed by
\* xfr_reg_inmem2file().  The command line carries, beside
\* its options, what the kernel answers: open is the errno of open(2) of
\* the source file, reads what its successive read(2) calls return (an
\* errno, or the number of bytes that are ready), poll what poll(2) says
\* after EAGAIN, and obstacle whether a directory lies at the destination
\* path.  The call in progress is the one element of stack: at is the place
\* it has reached, bp the buffer as the pieces [lo, n] of the source file it
\* holds (n bytes from file offset lo), f_pos the offset of the open file,
\* fds the descriptors the process holds open and ebadf the number of
\* close(2) calls made on a descriptor that was not open.
\* Beside these, single calls of split_path(par_pt, base_pt) with the source
\* root /s, the two paths drawn from the absolute, lexically normal paths of
\* up to three components.
\* ------------------------------------------------------------------------
XferLines ==
    LET ReadAnswers == { [err |-> "ok", n |-> 100], [err |-> "ok", n |-> reg_re_read_sz],
                         [err |-> "EAGAIN", n |-> 0], [err |-> "EIO", n |-> 0] }
    IN
    {[k \in {"wait", "poll", "open", "reads", "obstacle"} \cup DOMAIN DefaultCl("read EIO", 0) |->
        CASE k = "wait" -> w[1]
          [] k = "poll" -> w[2]
          [] k = "open" -> o[1]
          [] k = "reads" -> o[2]
          [] k = "obstacle" -> ob
          [] k = "reglen" -> r
          [] OTHER -> DefaultCl("read EIO", c)[k]] :
       c \in {0, 2}, r \in {def_reglen, 2000}, ob \in BOOLEAN,
       w \in {<<FALSE, "POLLIN">>, <<TRUE, "POLLIN">>, <<TRUE, "timeout">>,
              <<TRUE, "POLLERR">>},
       o \in {<<"EACCES", <<>> >>, <<"ENOENT", <<>> >>}
             \cup {<<"ok", s>> : s \in UNION {[1..n -> ReadAnswers] : n \in 0..3}}}

InitX ==
    /\ cl \in XferLines
    /\ op = main_opts(cl)
    /\ mutp = main_mut_opts(cl)
    /\ q = [n \in StatNames |-> 0]
    /\ tree = <<>>
    /\ dest = IF cl.obstacle
              THEN Put(EmptyDest, <<"d", "bad">>,
                       DNode("directory", 0, NoData, <<>>, NoPath))
              ELSE EmptyDest
    /\ \/ /\ stack = <<>>
          /\ pc = "main"
       \/ /\ cl.reads = <<>> /\ cl.open = "ok" /\ ~cl.wait /\ ~cl.obstacle
          /\ cl.cache = 0 /\ cl.reglen = def_reglen
          /\ \E par_pt, base_pt \in UNION {[1..n -> {"s", "d", "dx", "abc"}] : n \in 0..3} :
                stack = <<[fn |-> "split_path", at |-> "call", par_pt |-> par_pt,
                           base_pt |-> base_pt, ec |-> "ok", vs |-> <<>>]>>
          /\ pc = "split"
    /\ ec = "ok"
    /\ res = 0

\* the first n bytes of the pieces b
RECURSIVE buf_take(_, _)
buf_take(b, n) ==
    IF n <= 0 \/ b = <<>> THEN <<>>
    ELSE IF Head(b).n <= n THEN <<Head(b)>> \o buf_take(Tail(b), n - Head(b).n)
    ELSE <<[lo |-> Head(b).lo, n |-> n]>>

\* the pieces b without their first n bytes
RECURSIVE buf_drop(_, _)
buf_drop(b, n) ==
    IF b = <<>> THEN <<>>
    ELSE IF n <= 0 THEN b
    ELSE IF Head(b).n <= n THEN buf_drop(Tail(b), n - Head(b).n)
    ELSE <<[lo |-> Head(b).lo + n, n |-> Head(b).n - n]>> \o Tail(b)

\* read(from_fd, bp + at, count) in the call fr: [err, n, fr]; the bytes go
\* to the buffer at offset at, over what was there
sys_read(fr, at, count) ==
    LET a == IF fr.reads = <<>> THEN [err |-> "ok", n |-> 0] ELSE Head(fr.reads)
        n == Min(a.n, count)
        rest == IF fr.reads = <<>> THEN <<>> ELSE Tail(fr.reads)
    IN  IF a.err # "ok"
        THEN [err |-> a.err, n |-> -1, fr |-> [fr EXCEPT !.reads = rest]]
        ELSE [err |-> "ok", n |-> n,
              fr |-> [fr EXCEPT
                        !.reads = IF a.n > n THEN <<[a EXCEPT !.n = @ - n]>> \o rest
                                  ELSE rest,
                        !.f_pos = @ + n,
                        !.bp = IF n = 0 THEN @
                               ELSE buf_take(@, at) \o <<[lo |-> fr.f_pos, n |-> n]>>
                                    \o buf_drop(@, at + n)]]

\* close(fd) in the call fr
sys_close(fr, fd) ==
    IF fd \in fr.fds THEN [fr EXCEPT !.fds = @ \ {fd}]
    ELSE [fr EXCEPT !.ebadf = @ + 1]

\* the call up to its read loop: open(2), the fall back on EACCES, fstat(2)
XferOpen ==
    /\ pc = "main"
    /\ LET fr == [fn |-> IF op.cache_op_num > 1 THEN "xfr_reg_file2inmem"
                         ELSE "xfr_reg_file2file",
                  from_file |-> <<"s", "bad">>, destin_file |-> <<"d", "bad">>,
                  at |-> "loop", from_fd |-> -1, off |-> 0, num |-> 0, res |-> "ok",
                  bp |-> <<>>, reads |-> cl.reads, f_pos |-> 0, fds |-> {},
                  ebadf |-> 0, contents |-> <<>>, read_found_nothing |-> FALSE]
           q1 == Inc(q, "num_reg_tries")
           opened == [fr EXCEPT !.from_fd = 3, !.fds = {3}]
       IN  IF cl.open = "EACCES"
           THEN /\ stack' = <<[fr EXCEPT !.at = "out"]>>
                /\ q' = q1
                /\ pc' = "xfer"
           ELSE IF cl.open # "ok"
           THEN /\ stack' = <<[fr EXCEPT !.at = "return", !.res = cl.open]>>
                /\ q' = reg_s_err_stats(cl.open, q1)
                /\ pc' = "done"
           ELSE IF op.reglen > 0
           THEN /\ stack' = <<opened>>
                /\ q' = q1
                /\ pc' = "xfer"
           ELSE /\ stack' = <<[sys_close(opened, 3) EXCEPT !.at = "out"]>>
                /\ q' = Inc(q1, "num_reg_s_at_reglen")
                /\ pc' = "xfer"
    /\ UNCHANGED <<cl, op, mutp, tree, dest, ec, res>>

\* one iteration of the do-while loop, with read_err_wait() when read(2)
\* failed; when the loop ends, what follows it up to the label do_destin or
\* store
XferRead ==
    /\ pc = "xfer"
    /\ Top.at = "loop"
    /\ LET r == sys_read(Top, Top.off, op.reglen - Top.off)
           off == Top.off + r.n
           fr == [r.fr EXCEPT !.off = off, !.num = off]
           q1 == IF r.err = "EAGAIN" THEN Inc(q, "num_reg_s_eagain") ELSE q
           r2 == sys_read(r.fr, 0, op.reglen)
           fail(qq, f) == /\ stack' = <<[sys_close(f, f.from_fd) EXCEPT
                                           !.at = "out", !.num = 0,
                                           !.res = IF f.fn = "xfr_reg_file2inmem"
                                                   THEN "ok" ELSE r.err]>>
                          /\ q' = qq
       IN  IF r.err = "ok"
           THEN IF r.n >= reg_re_read_sz
                THEN /\ stack' = <<fr>>
                     /\ q' = q
                ELSE /\ stack' = <<[sys_close(fr, fr.from_fd) EXCEPT !.at = "out"]>>
                     /\ q' = IF off >= op.reglen THEN Inc(q, "num_reg_s_at_reglen")
                             ELSE q
           ELSE IF r.err = "EAGAIN" /\ cl.wait
           THEN IF cl.poll = "timeout"
                THEN fail(Inc(q1, "num_reg_s_timeout"), r.fr)
                ELSE IF cl.poll = "POLLERR"
                THEN fail(reg_s_err_stats("EPROTO", q1), r.fr)
                ELSE IF r2.err # "ok"
                THEN fail(reg_s_err_stats(r2.err, q1), r2.fr)
                ELSE /\ stack' = <<[r2.fr EXCEPT !.num = r2.n, !.res = r.err]>>
                     /\ q' = q1
           ELSE fail(reg_s_err_stats(r.err, q1), r.fr)
    /\ UNCHANGED <<cl, op, mutp, tree, dest, pc, ec, res>>

\* the vector that the call hands on: bp[0] .. bp[num - 1]
XferVec(fr) ==
    [tag |-> "bytes", path |-> fr.from_file, len |-> fr.num,
     pieces |-> buf_take(fr.bp, fr.num)]

\* from the label do_destin of xfr_reg_file2file(), or store of
\* xfr_reg_file2inmem(), to the return; xfr_vec2file() opens and closes its
\* own descriptor
XferOut ==
    /\ pc = "xfer"
    /\ Top.at = "out"
    /\ IF Top.fn = "xfr_reg_file2file"
       THEN LET w == xfr_vec2file(dest, q, XferVec(Top), Top.destin_file, Top.from_file)
            IN  /\ dest' = w.dst
                /\ q' = w.q
                /\ stack' = <<[Top EXCEPT !.at = "return", !.res = w.res,
                                          !.from_fd = -1]>>
                /\ pc' = "done"
       ELSE /\ stack' = <<[(IF Top.from_fd >= 0 THEN sys_close(Top, Top.from_fd) ELSE Top)
                            EXCEPT !.at = "stored",
                                   !.contents = IF Top.num > 0 THEN XferVec(Top) ELSE @,
                                   !.read_found_nothing = (Top.num = 0)]>>
            /\ UNCHANGED <<dest, q, pc>>
    /\ UNCHANGED <<cl, op, mutp, tree, ec, res>>

\* xfr_reg_inmem2file() of what xfr_reg_file2inmem() stored
XferInmem2File ==
    /\ pc = "xfer"
    /\ Top.at = "stored"
    /\ LET w == xfr_vec2file(dest, q,
                             IF Top.read_found_nothing
                             THEN [XferVec(Top) EXCEPT !.len = 0, !.pieces = <<>>]
                             ELSE Top.contents,
                             Top.destin_file, Top.from_file)
       IN  /\ dest' = w.dst
           /\ q' = w.q
           /\ stack' = <<[Top EXCEPT !.at = "return", !.res = w.res]>>
           /\ pc' = "done"
    /\ UNCHANGED <<cl, op, mutp, tree, ec, res>>

\* the call of split_path() that the stack holds, from entry to return
SplitPath ==
    /\ pc = "split"
    /\ LET sp == split_path(Top.par_pt, Top.base_pt, op.source_pt)
       IN  stack' = <<[Top EXCEPT !.at = "returned", !.ec = sp.ec, !.vs = sp.vs]>>
    /\ pc' = "done"
    /\ UNCHANGED <<cl, op, mutp, tree, dest, q, ec, res>>

NextX ==
    \/ XferOpen
    \/ XferRead
    \/ XferOut
    \/ XferInmem2File
    \/ SplitPath

SpecX ==
    InitX /\ [][NextX]_vars

\* ------------------------------------------------------------------------
\* Notions the properties below are stated in
\* ------------------------------------------------------------------------
IsPrefix(a, b) ==
    Len(a) <= Len(b) /\ SubSeq(b, 1, Len(a)) = a

\* the destination path that mirrors source path p
Mirror(p) ==
    DstRoot \o SubSeq(p, Len(SrcRoot) + 1, Len(p))

\* what the run has put below DPATH
DestPaths ==
    DOMAIN dest \ {<<>>, DstRoot}

Nodes ==
    DOMAIN tree

Mask(n) ==
    tree[n].prune_mask

TreeAncestors(n) ==
    {SubSeq(n, 1, k) : k \in 0..(Len(n) - 1)}

TreeDescendants(n) ==
    {m \in Nodes : IsPrefix(n, m) /\ m # n}

\* the path of node n as the unroller forms it: the filenames from the root
RECURSIVE NamePath(_)
NamePath(n) ==
    IF n = <<>> THEN SrcRoot
    ELSE Append(NamePath(SubSeq(n, 1, Len(n) - 1)), tree[n].filename)

\* the canonical target of symlink node n
SymTarget(n) ==
    canonical(FS, IF is_relative(tree[n].target)
                  THEN join_path(parent_path(NamePath(n)), tree[n].target)
                  ELSE tree[n].target)

\* pass 2 has run
AfterPass2 ==
    pc \in {"pass3", "unroll", "done"} /\ op.prune_given /\ q["num_prune_exact"] > 0

ExactNodes ==
    {n \in Nodes : prune_exact \in Mask(n)}

\* the canonical targets of the symlinks among the nodes of I
SymTargets(I) ==
    {SymTarget(n).path : n \in {k \in I : tree[k].kind = "symlink" /\ SymTarget(k).ok}}

\* the pruned region that grows from the nodes of I: their descendants, and
\* the targets of the symlinks in it with the descendants of the targets
RegionStep(I) ==
    LET T == SymTargets(I)
    IN  I \cup {m \in Nodes : \/ \E n \in I : IsPrefix(n, m)
                              \/ NamePath(m) \in T}

RECURSIVE Region(_)
Region(I) ==
    LET S == RegionStep(I)
    IN  IF S = I THEN I ELSE Region(S)

\* the nodes that the seeds I justify: the pruned region, the ancestors of
\* its nodes and the nodes on the path to the target of a symlink in it
Justified(I) ==
    LET R == Region(I)
        T == SymTargets(R)
    IN  R \cup {m \in Nodes : \/ \E n \in R : IsPrefix(m, n)
                              \/ \E t \in T : IsPrefix(NamePath(m), t)}

\* ------------------------------------------------------------------------
\* C1 (prune completeness): after pass 2, every node m that carries the
\* exact bit carries all_below together with every descendant of m in the
\* tree, and every ancestor of m up to the root carries up_chain or
\* all_below.  The code does not keep this: see C1_ExactSymlinkLeft.
\* ------------------------------------------------------------------------
C1_PruneCompleteness ==
    AfterPass2 =>
      \A m \in ExactNodes :
        /\ \A d \in {m} \cup TreeDescendants(m) : prune_all_below \in Mask(d)
        /\ \A a \in TreeAncestors(m) :
             Mask(a) \cap {prune_up_chain, prune_all_below} # {}

\* C1, the part that concerns the ancestors alone: after pass 2 every
\* ancestor of an exact node is marked
C1_AncestorsMarked ==
    AfterPass2 => \A m \in ExactNodes : \A a \in TreeAncestors(m) : Mask(a) # {}

\* ------------------------------------------------------------------------
\* C2 (prune of a directory): in a source tree without symlinks, with
\* --prune=P for a directory P that pass 1 cached, the destination holds
\* exactly the mirrors of the ancestors of P, of P and of the cached
\* descendants of P.
\* ------------------------------------------------------------------------
PruneArg ==
    CHOOSE p \in cl.prune : TRUE

C2Case ==
    /\ pc = "done"
    /\ cl.fix = "spine"
    /\ Cardinality(cl.prune) = 1
    /\ cl.euid_root
    /\ FS[PruneArg].kind = "directory"
    /\ \E n \in Nodes : tree[n].from = PruneArg

C2_PruneDirectory ==
    C2Case =>
      DestPaths = {Mirror(tree[n].from) :
                     n \in {m \in Nodes : \/ IsPrefix(tree[m].from, PruneArg)
                                          \/ IsPrefix(PruneArg, tree[m].from)}}
                  \ {DstRoot}

\* --prune=SPATH/a/b: a/b/c/leaf is written, the cached a/o is not
C2_Witness ==
    /\ C2Case
    /\ PruneArg = <<"s", "a", "b">>
    /\ \E n \in Nodes : tree[n].from = <<"s", "a", "o">>
    /\ Mirror(<<"s", "a", "b", "c", "leaf">>) \in DestPaths
    /\ Mirror(<<"s", "a", "o">>) \notin DestPaths

\* ------------------------------------------------------------------------
\* C3 (prune soundness), as the claim states it: after pass 2 every marked
\* node, the source root included, is justified by a node that carries the
\* exact bit, and no node is marked when no node carries the exact bit.
\* ------------------------------------------------------------------------
C3_SoundWithRoot ==
    AfterPass2 =>
      LET J == Justified(ExactNodes)
      IN  /\ \A n \in Nodes : Mask(n) # {} => n \in J
          /\ ExactNodes = {} => \A n \in Nodes : Mask(n) = {}

\* what main() matched: the nodes with the exact bit, and the source root
\* itself when the prune set is {SOURCE}
PruneSeeds ==
    ExactNodes \cup (IF mutp.prune_take_all THEN {<<>>} ELSE {})

\* C3 as the code keeps it: main() marks the source root up_chain when
\* --prune is given, before any scan; every other marked node is justified
\* by a node with the exact bit or, when the prune set is {SOURCE}, by the
\* source root.  It holds at every step of pass 1 and pass 2 and when the
\* unroller starts, after which the masks no longer change.
C3_SoundBelowRoot ==
    pc \in {"cache", "pass2", "prune", "pass3"} =>
      LET J == Justified(PruneSeeds)
      IN  /\ op.prune_given <=> Mask(<<>>) # {}
          /\ \A n \in Nodes \ {<<>>} : Mask(n) # {} => n \in J

\* pass 2 has followed an exact symlink to its target directory: the
\* target and the path to it are marked, a sibling of the link is not
C3_Witness ==
    /\ AfterPass2
    /\ \E n \in ExactNodes :
         /\ tree[n].kind = "symlink"
         /\ SymTarget(n).ok
         /\ \E m \in Nodes : /\ NamePath(m) = SymTarget(n).path
                             /\ tree[m].kind = "directory"
                             /\ ~IsPrefix(m, n)
                             /\ prune_all_below \in Mask(m)
                             /\ TreeDescendants(m) # {}
    /\ \E n \in Nodes : Mask(n) = {}

\* ------------------------------------------------------------------------
\* What a --cache run without --prune leaves below DPATH, told from the
\* source tree and the options alone, as the set of <<path, kind, length,
\* link target>>.  The outer scan consults --exclude and --dereference, the
\* scan of a dereferenced directory neither; both consult --excl-fn, the
\* hidden names, the device of the source root and --max-depth, the nested
\* scan counting its depth from 0 again.
\* ------------------------------------------------------------------------
DestImage ==
    {<<p, dest[p].kind, dest[p].len, dest[p].target>> : p \in DestPaths}

CopyLen(pt) ==
    IF cl.reglen > 0 THEN read_loop(FS[pt].size, FS[pt].chunk, cl.reglen, 0) ELSE 0

RECURSIVE CacheDirImage(_, _, _, _)
CacheEntryImage(pt, dp, depth, outer) ==
    LET kind == FS[pt].kind
        isdir == kind = "directory"
        deref_entry == /\ outer
                       /\ kind = "symlink"
                       /\ pt \in SeqToSet(main_deref_v(FS, cl.deref, SrcRoot))
        excluded == /\ ~deref_entry
                    /\ \/ outer /\ pt \in SeqToSet(main_glob_exclude_v(FS, cl.exclude,
                                                                       SrcRoot))
                       \/ filename(pt) \in cl.excl_fn
        at_max == cl.max_depth > 0 /\ isdir /\ depth >= cl.max_depth - 1
        st == canonical(FS, pt)
        tgt == canonical(FS, join_path(parent_path(pt), FS[pt].target))
        node(k, len, target) == {<<dp, k, len, target>>}
    IN  IF ~st.ok /\ ~(kind = "symlink" /\ st.err = "ENOENT") THEN {}
        ELSE IF excluded \/ at_max THEN {}
        ELSE IF filename(pt) \in HiddenNames /\ ~cl.hidden THEN {}
        ELSE IF isdir
        THEN node("directory", 0, <<>>)
             \cup (IF FS[pt].dev # FS[SrcRoot].dev THEN {}
                   ELSE CacheDirImage(pt, dp, depth + 1, outer))
        ELSE IF kind = "symlink"
        THEN IF ~deref_entry THEN node("symlink", 0, FS[pt].target)
             ELSE IF ~tgt.ok THEN {}
             ELSE IF ~path_contains_canon(SrcRoot, tgt.path)
             THEN node("symlink", 0, FS[pt].target)
             ELSE IF FS[tgt.path].kind = "directory"
             THEN node("directory", 0, <<>>)
                  \cup {<<Append(dp, src_symlink_tgt_path), "regular",
                          str_size(tgt.path) + 1, <<>>>>}
                  \cup CacheDirImage(tgt.path, dp, 0, FALSE)
             ELSE IF FS[tgt.path].kind = "regular"
             THEN node("regular", CopyLen(tgt.path), <<>>)
             ELSE {}
        ELSE IF kind = "regular" THEN node("regular", CopyLen(pt), <<>>)
        ELSE IF kind \in {"block", "character"} /\ cl.euid_root
        THEN node(kind, 0, <<>>)
        ELSE {}

CacheDirImage(src_dir, dst_dir, depth, outer) ==
    UNION {CacheEntryImage(Append(src_dir, n), Append(dst_dir, n), depth, outer) :
             n \in ChildNames(FS, src_dir)}

\* ------------------------------------------------------------------------
\* C4 (take-all): with the prune set {SOURCE}, every call of
\* prune_prop_dir() in pass 2 has in_prune set, every node of the tree ends
\* with a non-zero mask, and the destination is the one that a --cache run
\* without --prune leaves for the same source and options.
\* ------------------------------------------------------------------------
C4_TakeAllSameAsCache ==
    /\ pc = "done" /\ op.cache_op_num >= 1 /\ cl.prune \in {{}, {SrcRoot}}
         => DestImage = CacheDirImage(SrcRoot, DstRoot, 0, TRUE)
    /\ cl.prune = {SrcRoot} /\ pc = "prune"
         => \A i \in DOMAIN stack : stack[i].in_prune
    /\ cl.prune = {SrcRoot} /\ pc \in {"pass3", "unroll", "done"}
         => \A n \in Nodes : Mask(n) # {}

\* a take-all run with a dereferenced link to a directory has ended
C4_Witness ==
    /\ pc = "done"
    /\ cl.prune = {SrcRoot}
    /\ mutp.prune_take_all
    /\ cl.fix = "sysfs"
    /\ cl.deref = {<<"s", "dev", "sda">>}
    /\ Mirror(<<"s", "dev", "sda", "q", "r">>) \in DestPaths
    /\ Mirror(<<"s", "block", "sda", "size">>) \in DestPaths

\* ------------------------------------------------------------------------
\* The option vectors as main() builds them, before any scan consumes them
\* ------------------------------------------------------------------------
ExcludeSet ==
    SeqToSet(main_glob_exclude_v(FS, cl.exclude, SrcRoot))

DerefSet ==
    SeqToSet(main_deref_v(FS, cl.deref, SrcRoot))

\* depth below the root of a destination path: 0 for the root's children
DestDepth(d) ==
    Len(d) - Len(DstRoot) - 1

\* ------------------------------------------------------------------------
\* C5 (exclude, direct scanner): a source path of the exclude set, one that
\* --dereference does not name as well, is never written at its mirrored
\* destination path, and nothing is written below that path.  The code
\* does not keep this: a nested scan uses up the exclude entry.
\* ------------------------------------------------------------------------
C5_ExcludedNeverWritten ==
    op.cache_op_num = 0 =>
      \A p \in ExcludeSet \ DerefSet :
        \A d \in DestPaths : ~IsPrefix(Mirror(p), d)

\* ------------------------------------------------------------------------
\* C6 (exclude, cache scanner): no node of the tree was made for a source
\* path that --exclude or --excl-fn matches (and --dereference does not
\* name), nor for a source path below a matched directory.  The code does
\* not keep this below a directory synthesized by a dereference.
\* ------------------------------------------------------------------------
ExcludeMatches(a) ==
    a \notin DerefSet /\ (a \in ExcludeSet \/ filename(a) \in cl.excl_fn)

C6_ExcludedNeverCached ==
    \A n \in Nodes \ {<<>>} :
      LET p == tree[n].from
      IN  \A k \in (Len(SrcRoot) + 1)..Len(p) :
            LET a == SubSeq(p, 1, k)
            IN  (k = Len(p) \/ FS[a].kind = "directory") => ~ExcludeMatches(a)

\* ------------------------------------------------------------------------
\* C7 (excl-fn), as the claim states it: no node whose filename is an
\* --excl-fn argument appears in the destination.
\* ------------------------------------------------------------------------
C7_NoExcludedName ==
    \A d \in DestPaths : filename(d) \notin cl.excl_fn

\* C7 as the code keeps it: the only destination nodes whose filename is
\* an --excl-fn argument stand where a symlink of that name that
\* --dereference names was dereferenced.
C7_ExcludedNameOnlyDeref ==
    \A d \in DestPaths :
      filename(d) \in cl.excl_fn =>
        /\ dest[d].from \in DerefSet
        /\ filename(dest[d].from) = filename(d)
        /\ dest[d].kind # "symlink"

\* --excl-fn=sda --dereference=SPATH/dev/sda: the run has ended, dev/sda
\* is a directory, block/sda and what is below it are not written, and the
\* scan did visit block (its entry name is there)
C7_Witness ==
    /\ pc = "done"
    /\ cl.fix = "sysfs"
    /\ cl.excl_fn = {"sda"}
    /\ Mirror(<<"s", "dev", "sda">>) \in DestPaths
    /\ dest[Mirror(<<"s", "dev", "sda">>)].kind = "directory"
    /\ Mirror(<<"s", "block">>) \in DestPaths
    /\ Mirror(<<"s", "block", "sda">>) \notin DestPaths

\* ------------------------------------------------------------------------
\* C8 (dereference of a link to a directory): when the run has ended, for
\* every symlink L that --dereference names and whose canonical target is
\* a directory inside the source, the destination holds a directory at the
\* mirror of L with the regular file 0_source_symlink_target_path, holding
\* the canonical target path and a newline, and the entries of the target.
\* Stated for runs with no option that could keep L or the entries out.
\* The code does not keep this when DPATH existed before the run.
\* ------------------------------------------------------------------------
Visible(p) ==
    cl.hidden \/ \A k \in (Len(SrcRoot) + 1)..Len(p) : p[k] \notin HiddenNames

C8_DerefDirectory ==
    /\ pc = "done"
    /\ cl.exclude = {} /\ cl.excl_fn = {} /\ cl.max_depth = 0 /\ cl.prune = {}
    /\ cl.euid_root
    => \A L \in DerefSet :
         LET tgt == canonical(FS, join_path(parent_path(L), FS[L].target))
             file == Append(Mirror(L), src_symlink_tgt_path)
         IN  /\ Visible(L)
             /\ tgt.ok
             /\ path_contains_canon(SrcRoot, tgt.path)
             /\ FS[tgt.path].kind = "directory"
             => /\ Mirror(L) \in DestPaths
                /\ dest[Mirror(L)].kind = "directory"
                /\ file \in DestPaths
                /\ dest[file].kind = "regular"
                /\ dest[file].data = PathNl(tgt.path)
                /\ \A c \in ChildNames(FS, tgt.path) :
                     \/ (c \in HiddenNames /\ ~cl.hidden)
                     \/ Append(Mirror(L), c) \in DestPaths

\* ------------------------------------------------------------------------
\* C9 (max-depth): with --max-depth=D, D > 0, no node of the destination
\* is deeper than D below DPATH, the children of DPATH being at depth 0.
\* The code does not keep this below a dereferenced symlink.
\* ------------------------------------------------------------------------
C9_MaxDepth ==
    cl.max_depth > 0 => \A d \in DestPaths : DestDepth(d) <= cl.max_depth

\* ------------------------------------------------------------------------
\* C10 (reglen), as the claim states it: every regular file of the
\* destination is at most reglen bytes long.
\* ------------------------------------------------------------------------
C10_AllRegularWithinReglen ==
    \A d \in DestPaths : dest[d].kind = "regular" => dest[d].len <= cl.reglen

\* C10 as the code keeps it: every regular file of the destination that
\* was copied from a regular file of the source is at most reglen bytes
\* long; the other regular files are the 0_source_symlink_target_path
\* files, which hold the whole canonical target path and a newline.
C10_CopiesWithinReglen ==
    \A d \in DestPaths :
      dest[d].kind = "regular" =>
        IF dest[d].data.tag = "path_nl"
        THEN /\ filename(d) = src_symlink_tgt_path
             /\ dest[d].len = str_size(dest[d].data.path) + 1
        ELSE dest[d].len <= cl.reglen

\* --reglen=1: a source file longer than that was written with 1 byte,
\* beside a 0_source_symlink_target_path file that is longer
C10_Witness ==
    /\ pc = "done"
    /\ cl.reglen = 1
    /\ \E d \in DestPaths : /\ dest[d].kind = "regular"
                            /\ dest[d].data.tag = "bytes"
                            /\ dest[d].len = 1
                            /\ FS[dest[d].data.path].size > 1
    /\ \E d \in DestPaths : /\ dest[d].kind = "regular"
                            /\ dest[d].data.tag = "path_nl"
                            /\ dest[d].len > 1

OtherDev(p) ==
    p \in DOMAIN FS /\ FS[p].dev # mutp.starting_fs_inst

\* p lies below a directory that is on another file system
BelowOtherDev(p) ==
    \E k \in Len(SrcRoot)..(Len(p) - 1) : OtherDev(SubSeq(p, 1, k))

C13_ExitOneWhenScanFailed ==
    pc = "done" /\ q["num_scan_failed"] > 0 => res = 1

\* the destination path of tree node n, as the unroller forms it
NodeDest(n) ==
    Mirror(NamePath(n))

\* ------------------------------------------------------------------------
\* C14 (per-node failures never stop the run), for the unroller: when a
\* --cache run without --prune= has ended, every directory, regular file
\* and symlink of the tree whose parent directory is there in the
\* destination was processed, so that something is at its destination
\* path, whatever failed for its siblings and in the other subtrees.  The
\* code does not keep this: a directory that cannot be created ends the
\* loops of every unroll_cache() on the stack.
\* ------------------------------------------------------------------------
C14_UnrollerProcessesAll ==
    pc = "done" /\ op.cache_op_num > 0 /\ ~op.prune_given =>
      \A n \in Nodes \ {<<>>} :
        /\ tree[n].kind \in {"directory", "regular", "symlink"}
        /\ status(dest, parent_path(NodeDest(n))) = "directory"
        => NodeDest(n) \in DOMAIN dest


\* the six counters of errors on a source regular file, one per class
SrcErrClasses ==
    {"num_reg_s_eacces", "num_reg_s_eperm", "num_reg_s_eio",
     "num_reg_s_enoent_enodev_enxio", "num_reg_s_timeout", "num_reg_s_e_other"}

\* the class an errno belongs to
SrcErrClass(err) ==
    CASE err = "EACCES" -> "num_reg_s_eacces"
      [] err = "EPERM" -> "num_reg_s_eperm"
      [] err = "EIO" -> "num_reg_s_eio"
      [] err \in {"ENOENT", "ENODEV", "ENXIO"} -> "num_reg_s_enoent_enodev_enxio"
      [] OTHER -> "num_reg_s_e_other"

\* the errno with which the open or the read of the source file p fails in
\* this run ("ok": neither fails)
SrcReadFailure(p) ==
    IF FS[p].open_err # "ok" THEN FS[p].open_err
    ELSE IF op.reglen > 0 THEN FS[p].read_err
    ELSE "ok"

\* C15: when the run is over, a source regular file whose open or read
\* failed has incremented the counter of exactly its class (the only such
\* file of the run: that counter is 1 and the other five are 0), and the
\* file exists at the destination as a regular file of length 0.
C15_ReadErrorCountedAndFileCreated ==
    pc = "done" /\ res = 0 =>
        \A p \in DOMAIN FS :
            FS[p].kind = "regular" /\ SrcReadFailure(p) # "ok" =>
                /\ \A n \in SrcErrClasses :
                       q[n] = IF n = SrcErrClass(SrcReadFailure(p)) THEN 1 ELSE 0
                /\ Mirror(p) \in DOMAIN dest
                /\ dest[Mirror(p)].kind = "regular"
                /\ dest[Mirror(p)].len = 0

\* C16: at every point of pass 1 and afterwards, every cached node that has
\* a parent records in par_dir_ind the slot of the parent's child vector in
\* which it is stored.
C16_ParDirInd ==
    \A n \in DOMAIN tree : Len(n) > 0 => tree[n].par_dir_ind = n[Len(n)]

\* the directory node n is one that symlink_cache_src() made for a
\* dereferenced symlink
Synthesized(n) ==
    /\ tree[n].kind = "directory"
    /\ tree[n].from \in DOMAIN FS
    /\ FS[tree[n].from].kind = "symlink"

\* C17: after any sequence of insertions, the filename map of every
\* directory node D maps the filename of each child directory to the slot
\* of D's child vector that holds it, and every entry of the map names a
\* slot holding a directory of that filename, so that no child that is not
\* a directory has an entry; directories made for a dereferenced symlink
\* are children like any other.
C17_FilenameMap ==
    \A D \in DOMAIN tree :
        tree[D].kind = "directory" =>
            /\ \A i \in 0..(tree[D].nsub - 1) :
                   tree[Append(D, i)].kind = "directory" =>
                       /\ tree[Append(D, i)].filename \in DOMAIN tree[D].sdir_fn_ind_m
                       /\ tree[D].sdir_fn_ind_m[tree[Append(D, i)].filename] = i
            /\ \A fn \in DOMAIN tree[D].sdir_fn_ind_m :
                   /\ tree[D].sdir_fn_ind_m[fn] \in 0..(tree[D].nsub - 1)
                   /\ tree[Append(D, tree[D].sdir_fn_ind_m[fn])].kind = "directory"
                   /\ tree[Append(D, tree[D].sdir_fn_ind_m[fn])].filename = fn

\* the source directory whose entries belong below the directory node D:
\* the directory D was made for, or the directory a dereferenced symlink
\* leads to when D was made for the symlink
Represents(D) ==
    IF Synthesized(D)
    THEN canonical(FS, join_path(parent_path(tree[D].from), FS[tree[D].from].target)).path
    ELSE tree[D].from

\* C20: every entry that pass 1 has inserted was inserted
\* while l_odirp designated the node of the entry's parent path: each
\* cached node other than the root and the files that record the target of
\* a dereferenced symlink is a child of the node that stands for the
\* directory holding the entry, also after a nested dereference scan has
\* failed.
C20_WalkerReentry ==
    \A n \in DOMAIN tree :
        /\ Len(n) > 0
        /\ ~tree[n].always_use_contents
        => parent_path(tree[n].from) = Represents(SubSeq(n, 1, Len(n) - 1))

\* C18: while the direct scanner runs with --max-depth= given, the calls of
\* clone_work() made from within clone_work() for dereferenced symlinks
\* are never nested more deeply than the number given there (the first
\* call is at nesting 0); a call that would exceed
\* the bound is not made (the caller gets ELOOP instead).
C18_NestingBounded ==
    pc = "clone" /\ op.max_depth_active => Len(stack) - 1 <= cl.max_depth

\* the paths and kinds of an image
PathKinds(I) ==
    {<<x[1], x[2]>> : x \in I}

\* C19: a run of the direct scanner without --prune ends with the same set
\* of destination nodes, of the same kinds, as pass 1 followed by unroll
\* leaves for the same source tree and options; this covers directories
\* at the --max-depth limit, hidden and excluded entries and dereferenced
\* symlinks.
C19_CacheSameAsDirect ==
    pc = "done" /\ op.cache_op_num = 0 /\ cl.prune = {}
        => PathKinds(DestImage) = PathKinds(CacheDirImage(SrcRoot, DstRoot, 0, TRUE))

\* the --prune= arguments as main() puts them in prune_v
PruneArgs ==
    SeqToSet(main_prune_v(FS, cl.prune))

\* C21 as stated: when pass 1 has finished and pass 2 has not started,
\* every node of the tree, the source root included, has a prune_mask that
\* is empty or exactly {exact}, and {exact} only when its path matched a
\* --prune argument.
C21_NoPropagationInPass1 ==
    pc = "pass2" =>
        \A n \in Nodes :
            /\ Mask(n) \in {{}, {prune_exact}}
            /\ Mask(n) = {prune_exact} => tree[n].from \in PruneArgs

\* C21 as the code keeps it: main() marks the source root up_chain when
\* --prune is given, before pass 1; pass 1 leaves every other node with an
\* empty mask or with exactly {exact}, the latter only on a node whose path
\* matched a --prune argument, and never changes the mask of the root.
C21_NoPropagationBelowRoot ==
    pc = "pass2" =>
        /\ Mask(<<>>) = IF op.prune_given THEN {prune_up_chain} ELSE {}
        /\ \A n \in Nodes \ {<<>>} :
               /\ Mask(n) \in {{}, {prune_exact}}
               /\ Mask(n) = {prune_exact} => tree[n].from \in PruneArgs

\* pass 1 of a --prune run has ended with a matched and an unmatched node
C21_Witness ==
    /\ pc = "pass2"
    /\ op.prune_given
    /\ \E n \in Nodes \ {<<>>} : Mask(n) = {prune_exact}
    /\ \E n \in Nodes \ {<<>>} : Mask(n) = {} /\ tree[n].kind = "regular"

\* C22: after propagation no node carries both all_below and up_chain: a
\* node marked up_chain that an all_below region reaches is upgraded, the
\* source root in take-all mode and a prune-exact directory that was marked
\* up_chain as an ancestor of a symlink target included.
C22_NoNodeWithBothMarks ==
    AfterPass2 =>
        \A n \in Nodes : ~({prune_all_below, prune_up_chain} \subseteq Mask(n))

\* C22 as the code keeps it: after propagation no node other than the
\* source root carries both all_below and up_chain; the source root keeps
\* the up_chain mark of main() and carries all_below beside it exactly in
\* take-all mode.
C22_NoBothMarksBelowRoot ==
    AfterPass2 =>
        /\ \A n \in Nodes \ {<<>>} :
               ~({prune_all_below, prune_up_chain} \subseteq Mask(n))
        /\ prune_up_chain \in Mask(<<>>)
        /\ prune_all_below \in Mask(<<>>) <=> mutp.prune_take_all

\* a marked symlink points at or below a directory that ended all_below
\* without being a prune match itself and without holding the symlink
C22_Witness ==
    /\ AfterPass2
    /\ \E n \in Nodes \ {<<>>} :
          /\ tree[n].kind = "directory"
          /\ Mask(n) = {prune_all_below}
          /\ \E m \in Nodes :
                /\ tree[m].kind = "symlink"
                /\ Mask(m) # {}
                /\ n \notin TreeAncestors(m)
                /\ SymTarget(m).ok
                /\ SymTarget(m).path = NamePath(n)

\* C23: prune propagation terminates, also when symlinks of the pruned
\* region lead to an ancestor, to the source root or to each other: pass 2,
\* once started, is followed by pass 3 or by the end of the run, and no
\* call of prune_prop_dir() reaches its loop for a directory that was
\* marked all_below before the call.
C23_PruneTerminates ==
    /\ [][pc = "prune" /\ pc' = "prune" /\ Len(stack') > Len(stack)
            => prune_all_below \notin tree[stack'[Len(stack')].dirp].prune_mask]_vars
    /\ (pc = "pass2") ~> (pc \in {"pass3", "done"})

\* pass 2 has ended after following the symlinks of two directories that
\* point at each other: one --prune= argument, both directories all_below
C23_Witness ==
    /\ pc = "pass3"
    /\ cl.fix = "cross"
    /\ Cardinality(cl.prune) = 1
    /\ \A n \in Nodes : tree[n].kind = "directory" /\ n # <<>>
                           => prune_all_below \in Mask(n)
    /\ \E n \in Nodes : tree[n].kind = "symlink" /\ prune_up_chain \in Mask(n)

\* ------------------------------------------------------------------------
\* Pass 2 as one call: prune_prop_dir() on the root run to its end, the
\* steps being those of PrunePass, PrunePropChild and PrunePropReturn
\* ------------------------------------------------------------------------
RECURSIVE prune_prop_dir_loop(_, _, _)
\* the part of an iteration that follows the evaluation of h
prune_prop_dir_loop_h(h, r, st) ==
    LET top == st[Len(st)]
        fr == [top EXCEPT !.k = @ + 1, !.post = r.post]
        m == prune_mark_up_chain(h.tree, h.q, top.src_dir_pt_s, op)
    IN  IF r.call = NoPruneCall
        THEN prune_prop_dir_loop(r.tree, r.q, Append(Pop(st), fr))
        ELSE IF h.ret
        THEN prune_prop_dir_loop(IF r.post = "mark_up" THEN m.tree ELSE h.tree,
                                 IF r.post = "mark_up" THEN m.q ELSE h.q,
                                 Append(Pop(st), [fr EXCEPT !.post = "none"]))
        ELSE prune_prop_dir_loop(h.tree, h.q,
                                 Append(Append(Pop(st), fr), prune_frame(r.call.dirp, h)))

\* the part of an iteration that follows the evaluation of r
prune_prop_dir_loop_r(r, st) ==
    prune_prop_dir_loop_h(prune_prop_dir_head(r.tree, r.q, r.call.dirp, r.call.s_par_pt_s,
                                              r.call.in_prune, op), r, st)

\* the part of a return that follows the evaluation of m
prune_prop_dir_loop_m(m, t, qq, st, caller) ==
    prune_prop_dir_loop(IF caller.post = "mark_up" THEN m.tree ELSE t,
                        IF caller.post = "mark_up" THEN m.q ELSE qq,
                        Append(SubSeq(st, 1, Len(st) - 2), [caller EXCEPT !.post = "none"]))

\* the tree that the calls st of prune_prop_dir() leave when the outermost
\* has returned
prune_prop_dir_loop(t, qq, st) ==
    IF st = <<>> THEN t
    ELSE IF st[Len(st)].k < t[st[Len(st)].dirp].nsub
    THEN prune_prop_dir_loop_r(prune_child(FS, st[Len(st)], t, qq, op), st)
    ELSE IF Len(st) = 1 THEN t
    ELSE prune_prop_dir_loop_m(prune_mark_up_chain(t, qq, st[Len(st) - 1].src_dir_pt_s, op),
                               t, qq, st, st[Len(st) - 1])

\* the part of prune_prop_dir_root() that follows the evaluation of h
prune_prop_dir_root_h(h) ==
    IF h.ret THEN h.tree ELSE prune_prop_dir_loop(h.tree, h.q, <<prune_frame(<<>>, h)>>)

\* the tree that pass 2 leaves of the tree t of pass 1
prune_prop_dir_root(t) ==
    prune_prop_dir_root_h(prune_prop_dir_head(t, q, <<>>, op.source_pt,
                                              mutp.prune_take_all, op))

\* the tree as pass 1 left it: the exact bits, and the mark of main() on
\* the root
Pass1Tree ==
    [n \in Nodes |->
       [tree[n] EXCEPT !.prune_mask = IF n = <<>> THEN {prune_up_chain}
                                      ELSE @ \cap {prune_exact}]]

\* the index path of node p when every child vector of t is reversed
RevPath(t, p) ==
    [i \in 1..Len(p) |-> t[SubSeq(p, 1, i - 1)].nsub - 1 - p[i]]

\* t with every child vector reversed: what pass 1 builds when each
\* directory hands out its entries in the opposite order
Reversed(t) ==
    [x \in {RevPath(t, p) : p \in DOMAIN t} |->
       LET p == CHOOSE p \in DOMAIN t : RevPath(t, p) = x
       IN  [t[p] EXCEPT !.sdir_fn_ind_m =
                           [fn \in DOMAIN @ |-> t[p].nsub - 1 - @[fn]]]]

\* the source entries of the nodes of t that carry a mark
MarkedEntries(t) ==
    {t[n].from : n \in {m \in DOMAIN t : t[m].prune_mask # {}}}

\* C24: prune propagation is independent of the order of the children in
\* the child vectors: pass 2 run on the tree of pass 1 with every child
\* vector reversed marks the same source entries as the pass 2 that ran.
C24_OrderIndependent ==
    pc = "pass3" /\ AfterPass2 /\ cl.deref = {} =>
        MarkedEntries(prune_prop_dir_root(Reversed(Pass1Tree))) = MarkedEntries(tree)

\* C25: every prune match is kept with its spine: after pass 2 the parent
\* of every marked node is marked, and when the run has ended every node
\* with the exact bit is there in the destination (a matched symlink whose
\* target is dangling, outside the source or a directory already marked
\* all_below included).
C25_MatchKeptWithSpine ==
    AfterPass2 =>
        /\ \A n \in Nodes \ {<<>>} :
               Mask(n) # {} => Mask(SubSeq(n, 1, Len(n) - 1)) # {}
        /\ pc = "done" /\ ec = "ok" => \A n \in ExactNodes : NodeDest(n) \in DestPaths

\* the --dereference= entries that main() put into deref_v
DerefGiven ==
    Len(main_mut_opts(cl).deref_v)

\* C26: the direct scanner terminates, also when a dereferenced symlink
\* leads to a directory that holds it: a scan, once started, comes to the
\* end of the run; every match removes its entry from deref_v, so that the
\* matches counted and the entries left add up to the entries given; and
\* the calls of clone_work() on the stack are never more than one plus the
\* entries given.
C26_DirectScanTerminates ==
    /\ [](pc = "clone" =>
            /\ q["num_derefed"] + Len(mutp.deref_v) = DerefGiven
            /\ Len(stack) <= 1 + q["num_derefed"]
            /\ Len(stack) <= 1 + DerefGiven)
    /\ (pc = "clone") ~> (pc = "done")

\* three calls of clone_work() are on the stack, the innermost scanning
\* the target of the second dereferenced symlink, which holds that symlink
C26_Witness ==
    /\ pc = "clone"
    /\ cl.deref = {<<"s", ".h">>, <<"s", "d", "e", "back">>}
    /\ Len(stack) = 1 + DerefGiven
    /\ Top.src_pt = <<"s", "d">>
    /\ Top.lv # <<>>
    /\ q["num_derefed"] = 2
    /\ mutp.deref_v = <<>>

\* the bytes that the pieces b hold
RECURSIVE BufLen(_)
BufLen(b) ==
    IF b = <<>> THEN 0 ELSE Head(b).n + BufLen(Tail(b))

\* the pieces b are the first n bytes of the source file, in order
IsFilePrefix(b, n) ==
    /\ BufLen(b) = n
    /\ \A k \in 1..Len(b) : b[k].lo = BufLen(SubSeq(b, 1, k - 1))

\* no read(2) of the transfer failed for good: the only errors were EAGAIN
\* answered by a poll(2) that found the file readable and a read(2) that
\* succeeded
NoReadFailure ==
    /\ cl.open = "ok"
    /\ op.reglen > 0
    /\ q["num_reg_s_eio"] = 0
    /\ q["num_reg_s_e_other"] = 0
    /\ q["num_reg_s_timeout"] = 0

\* C27: reader accumulation: when the read loop has ended without a
\* failure, the content handed on is the bytes that the successful reads
\* returned, in order, cut at reglen bytes: the first bytes of the source
\* file up to the offset the reads have reached.  The read that follows
\* EAGAIN and a successful poll counts among them.
C27_ReaderAccumulates ==
    pc = "xfer" /\ Top.at = "out" /\ NoReadFailure =>
        /\ Top.num = Min(Top.f_pos, op.reglen)
        /\ IsFilePrefix(XferVec(Top).pieces, Top.num)

\* the errors that xfr_vec2file() has counted on the destination side
DestinErrors ==
    q["num_reg_d_enoent_enodev_enxio"] + q["num_reg_d_e_other"]

\* C28: destination write errors are reported: when the transfer has
\* ended and creating the destination file failed, the error is counted in
\* its class, the call returns the errno, and num_reg_success is not
\* incremented; num_reg_success counts the files that were written.
C28_DestinErrorReported ==
    pc = "done" /\ Top.at = "return" =>
        /\ cl.obstacle /\ cl.open \in {"ok", "EACCES"}
             => DestinErrors = 1 /\ Top.res # "ok" /\ q["num_reg_success"] = 0
        /\ q["num_reg_success"] = 1
             => status(dest, Top.destin_file) = "regular"

\* C29: scoped acquisition: when the transfer has ended, the process holds
\* no descriptor that it opened during the transfer, and no close(2) was
\* made on a descriptor that was not open.
C29_DescriptorsClosedOnce ==
    pc = "done" /\ Top.at = "return" => Top.fds = {} /\ Top.ebadf = 0

\* par lies in base or below it, component by component
Below(base, par) ==
    Len(base) <= Len(par) /\ SubSeq(par, 1, Len(base)) = base

C30_FailsOutsideBase ==
    pc = "done" /\ Top.fn = "split_path" /\ Below(op.source_pt, Top.base_pt)
        /\ Below(op.source_pt, Top.par_pt) /\ ~Below(Top.base_pt, Top.par_pt) =>
        Top.ec # "ok"

\* C30, the part the callers use: par lies in base or below it, and base
\* in the source root or below it
C30_Callers ==
    pc = "done" /\ Top.fn = "split_path" /\ Below(op.source_pt, Top.base_pt)
        /\ Below(Top.base_pt, Top.par_pt) =>
        Top.ec = "ok" /\ Top.base_pt \o Top.vs = Top.par_pt

====
